---- MODULE Spec2Model ----
(***************************************************************************)
(* Model of tandem: the handle/DID resolution fixpoint (src/src/resolve.rs) *)
(* and the Append Handle chain construction (src/src/actions/               *)
(* append_handle.rs, src/src/plc.rs, src/src/crypto.rs).                     *)
(*                                                                         *)
(* Strings are modelled as sequences of tokens, so that prefix tests,       *)
(* prefix stripping and hostname validation are computed: a token is one    *)
(* of the prefixes the program tests for ("at://", "did:", "plc:", "did=")  *)
(* or a single byte, e.g. "did:plc:a" is <<"did:", "plc:", "a">> and        *)
(* "at://a.t" is <<"at://", "a", ".", "t">>.                                *)
(***************************************************************************)
EXTENDS Integers, Sequences, FiniteSets, TLC

VARIABLES
    \* ---- resolve_handle (src/src/resolve.rs:134-222) ----
    subject,             \* the subject argument
    resolved_dids,       \* HashSet<String>
    unresolved_dids,     \* HashSet<String>
    resolved_handles,    \* HashSet<String>
    unresolved_handles,  \* HashSet<String>
    found_pds,           \* HashSet<String>
    found_handles,       \* HashSet<String>
    found_dids,          \* HashSet<String>
    iterations,          \* loop counter
    rpc,                 \* "loop" while in the loop, "done" once returned
    rresult,             \* the Result<ResolvedHandle> returned
    \* ---- the three external sources, and what was asked of them ----
    plcAns,              \* directory answer per DID (Unasked until queried)
    httpAns,             \* HTTPS well-known answer per handle
    dnsAns,              \* DNS TXT answer per handle
    plcQ,                \* number of directory queries issued per DID
    httpQ,               \* number of HTTPS lookups issued per handle
    dnsQ,                \* number of DNS lookups issued per handle
    queryPasses,         \* loop passes that executed their query steps
    \* ---- ActionAppendHandle::run, one per process (append_handle.rs) ----
    apc,                 \* the step each run is about to execute
    a_did,               \* did
    a_jwk,               \* jwk
    a_new_handle,        \* new_handle
    a_did_key,           \* did_key
    a_last_commit,       \* last_commit
    a_last_operation,    \* last_operation
    a_operation,         \* operation (the patched clone)
    a_signed,            \* signed_operation
    aresult,             \* the Result<()> of run
    a_steps,             \* the steps each run executed, in order
    a_fetched,           \* the audit log each run received
    a_posts,             \* the bodies each run POSTed to the directory
    a_response,          \* what each run's POST was answered with
    \* ---- the PLC directory ----
    dir_log,             \* the accepted operations of the DID, oldest first
    dir_verdict,         \* what the directory did with each run's POST
    \* ---- one call of a function of inputs.rs or crypto.rs ----
    v_pc,                \* "idle", "call" (about to be called) or "return"
    v_call,              \* the arguments
    v_ret,               \* the value returned
    \* ---- one run of Install Tandem Key (the action or the prepare
    \*      binary) or of Create Account ----
    e_entry,             \* which entry point runs
    epc,                 \* its position
    e_typed,             \* what the user typed at the prompts, by prompt
    e_handle,            \* handle (install key), pds_hostname (create account)
    e_key_type,          \* key_type
    e_key_position,      \* key_position
    e_resolved,          \* resolved_handle
    e_key,               \* (secret, encoded_public_key) of gen_key
    e_doc,               \* did_doc_data as fetched
    e_patched,           \* did_doc_data after the patch
    e_operation,         \* plc_operation
    e_requests,          \* the network requests issued, in order
    eresult              \* the Result<()> of the run

rvars == <<subject, resolved_dids, unresolved_dids, resolved_handles,
           unresolved_handles, found_pds, found_handles, found_dids,
           iterations, rpc, rresult, plcAns, httpAns, dnsAns, plcQ, httpQ,
           dnsQ, queryPasses>>

avars == <<apc, a_did, a_jwk, a_new_handle, a_did_key, a_last_commit,
           a_last_operation, a_operation, a_signed, aresult, a_steps,
           a_fetched, a_posts, a_response, dir_log, dir_verdict>>

pvars == <<v_pc, v_call, v_ret>>

evars == <<e_entry, epc, e_typed, e_handle, e_key_type, e_key_position, e_resolved,
           e_key, e_doc, e_patched, e_operation, e_requests, eresult>>

vars == <<rvars, avars, pvars, evars>>

\* What a step of resolve_handle, of Append Handle, of a single call, and of
\* the other entry points leaves alone.
NotResolver == <<avars, pvars, evars>>
NotAppend == <<rvars, pvars, evars>>
NotCall == <<rvars, avars, evars>>
NotEntry == <<rvars, avars, pvars>>

(***************************************************************************)
(* Bounds of the model.                                                    *)
(***************************************************************************)
\* Number of handles in the longest alsoKnownAs list of the deep family.
MaxDeepHandles == 10
\* Number of operations in the directory's log before the runs start, and
\* the range of their createdAt timestamps.
MaxInitLog == 2
MaxTime == 2
MaxAuditLen == 3
\* Length of the hostnames enumerated over the alphabet of HostChars.
MaxHostLen == 4

(***************************************************************************)
(* Program constants.                                                      *)
(***************************************************************************)
\* resolve.rs:157  if iterations > 10
MaxIterations == 10

(***************************************************************************)
(* Token strings.                                                          *)
(***************************************************************************)
AtPrefix == <<"at://">>
DidPrefix == <<"did:">>
DidPlcPrefix == <<"did:", "plc:">>
DidEqPrefix == <<"did=">>

\* str::starts_with
StartsWith(s, p) == Len(s) >= Len(p) /\ SubSeq(s, 1, Len(p)) = p
\* str::ends_with
EndsWith(s, p) ==
    Len(s) >= Len(p) /\ SubSeq(s, Len(s) - Len(p) + 1, Len(s)) = p

\* str::strip_prefix: Some(rest) when the prefix is there, None otherwise.
HasPrefix(s, p) == StartsWith(s, p)
StripPrefix(s, p) == SubSeq(s, Len(p) + 1, Len(s))

DidA == <<"did:", "plc:", "a">>
DidB == <<"did:", "plc:", "b">>
DidStrs == {DidA, DidB}

\* "a.t" and "b.local"
H1 == <<"a", ".", "t">>
H2 == <<"b", ".", "l", "o", "c", "a", "l">>
RichHandles == {H1, H2}
\* The deep family's handles: "x.t", "xx.t", "xxx.t", ...
DeepHandle(i) == [j \in 1..i |-> "x"] \o <<".", "t">>
DeepHandles == {DeepHandle(i) : i \in 1..MaxDeepHandles}
HandleStrs == RichHandles \cup DeepHandles

Pds1 == "https://pds1"
Pds2 == "https://pds2"

\* Option::None for a token string.
None == <<>>

SeqToSet(s) == {s[i] : i \in 1..Len(s)}

(***************************************************************************)
(* The three sources.  An answer is fixed from the first time it is given: *)
(* the logs plcAns, httpAns and dnsAns start Unasked (or are fixed by Init) *)
(* and a query of an Unasked element draws its answer from the sets below.  *)
(***************************************************************************)
Unasked == [status |-> "unasked"]
Failed == [status |-> "fail"]
NoQuery == [status |-> "noquery"]

PdsType == "AtprotoPersonalDataServer"
Service(t, e) == [service_type |-> t, service_endpoint |-> e]
\* The alsoKnownAs lists and service lists the directory of the general
\* family serves: with and without the at:// prefix, with and without a
\* service of another type.
AkaLists ==
    { <<>>, <<AtPrefix \o H1>>, <<H1>>, <<AtPrefix \o H2>>,
      <<AtPrefix \o H1, AtPrefix \o H2>> }
ServiceLists ==
    { <<>>, <<Service(PdsType, Pds1)>>, <<Service(PdsType, Pds2)>>,
      <<Service(PdsType, Pds1), Service(PdsType, Pds2)>>,
      <<Service("Other", Pds2), Service(PdsType, Pds1)>> }

\* GET https://{plc}/{did}: a transport or JSON failure, or a ResolveDid.
PlcAnswers ==
    {Failed} \cup
    [status : {"ok"}, also_known_as : AkaLists, service : ServiceLists]

\* GET https://{handle}/.well-known/atproto-did: a failure, or the body.
HttpBodies == DidStrs \cup {<<"junk">>}
HttpAnswers == {Failed} \cup [status : {"ok"}, body : HttpBodies]

\* TXT lookup of _atproto.{handle}: a lookup failure, or the records.
TxtSets ==
    { {}, {DidEqPrefix \o DidA}, {DidEqPrefix \o DidB},
      {DidEqPrefix \o DidA, DidEqPrefix \o DidB},
      {<<"v=spf1">>, DidEqPrefix \o DidA} }
DnsAnswers == {Failed} \cup [status : {"ok"}, records : TxtSets]

(***************************************************************************)
(* resolve.rs: the per-source functions.                                   *)
(***************************************************************************)
Ok(v) == [ok |-> TRUE, val |-> v]
Err(e) == [ok |-> FALSE, err |-> e]

\* resolve_handle_dns, resolve.rs:29-53
resolve_handle_dns(ans) ==
    IF ans.status # "ok" THEN Err("dns lookup failed")
    ELSE LET dids == {StripPrefix(r, DidEqPrefix) :
                        r \in {x \in ans.records : HasPrefix(x, DidEqPrefix)}}
         IN  IF Cardinality(dids) > 1 THEN Err("Multiple records found for handle")
             ELSE IF dids = {} THEN Err("No records found for handle")
             ELSE Ok(CHOOSE d \in dids : TRUE)

\* resolve_handle_http, resolve.rs:55-73
resolve_handle_http(ans) ==
    IF ans.status # "ok" THEN Err("http request failed")
    ELSE IF StartsWith(ans.body, DidPrefix) THEN Ok(ans.body)
    ELSE Err("Invalid response")

\* plc_query without the service-type filter of resolve.rs:100.
plc_query_any_service(ans) ==
    IF ans.status # "ok" THEN Err("plc query failed")
    ELSE LET handles == [i \in 1..Len(ans.also_known_as) |->
                           IF HasPrefix(ans.also_known_as[i], AtPrefix)
                           THEN StripPrefix(ans.also_known_as[i], AtPrefix)
                           ELSE ans.also_known_as[i]]
             pds == [i \in 1..Len(ans.service) |-> ans.service[i].service_endpoint]
         IN  Ok([pds |-> pds, handles |-> handles])

\* plc_query, resolve.rs:75-109: (pds, handles)
plc_query(ans) ==
    IF ans.status # "ok" THEN Err("plc query failed")
    ELSE LET handles == [i \in 1..Len(ans.also_known_as) |->
                           IF HasPrefix(ans.also_known_as[i], AtPrefix)
                           THEN StripPrefix(ans.also_known_as[i], AtPrefix)
                           ELSE ans.also_known_as[i]]
             sel == SelectSeq(ans.service,
                              LAMBDA v : v.service_type = PdsType)
             pds == [i \in 1..Len(sel) |-> sel[i].service_endpoint]
         IN  Ok([pds |-> pds, handles |-> handles])

(***************************************************************************)
(* resolve_handle, resolve.rs:134-222                                      *)
(***************************************************************************)
\* resolve.rs:157
DepthExceeded(it) == it > MaxIterations

\* resolve.rs:161-165: HashSet::difference(..).next() yields any element
\* of the difference (the iteration order of a HashSet is arbitrary).
NextChoices(unresolved, resolved) ==
    IF unresolved \ resolved = {} THEN {None} ELSE unresolved \ resolved

\* What the source answers: the logged answer, or any answer when the
\* element was never asked about.
PlcWorld(d) ==
    IF d = None THEN {NoQuery}
    ELSE IF d \in DOMAIN plcAns THEN {plcAns[d]} ELSE PlcAnswers
HttpWorld(h) ==
    IF h = None THEN {NoQuery}
    ELSE IF h \in DOMAIN httpAns THEN {httpAns[h]} ELSE HttpAnswers
DnsWorld(h) ==
    IF h = None THEN {NoQuery}
    ELSE IF h \in DOMAIN dnsAns THEN {dnsAns[h]} ELSE DnsAnswers

\* The checks after the loop without the one of resolve.rs:196-198: a DID
\* is picked among several.
PostConditions_pick(fdids, fhandles, fpds) ==
    IF fhandles = {} THEN Err("No handles found")
    ELSE IF Cardinality(fpds) > 1 THEN Err("Multiple PDSs found")
    ELSE IF fdids = {} THEN Err("No DIDs found")
    ELSE IF fpds = {} THEN Err("No PDSs found")
    ELSE Ok([did |-> CHOOSE d \in fdids : TRUE,
             pds |-> CHOOSE p \in fpds : TRUE,
             handles |-> fhandles])

\* resolve.rs:196-221: the checks after the loop and the value returned.
PostConditions(fdids, fhandles, fpds) ==
    IF Cardinality(fdids) > 1 THEN Err("Multiple DIDs found")
    ELSE IF fhandles = {} THEN Err("No handles found")
    ELSE IF Cardinality(fpds) > 1 THEN Err("Multiple PDSs found")
    ELSE IF fdids = {} THEN Err("No DIDs found")
    ELSE IF fpds = {} THEN Err("No PDSs found")
    ELSE Ok([did |-> CHOOSE d \in fdids : TRUE,
             pds |-> CHOOSE p \in fpds : TRUE,
             handles |-> fhandles])

\* The element picked is not marked resolved.
MarkResolved_forget(resolved, next) == resolved

\* resolve.rs:171 / 181: the element picked is marked resolved.
MarkResolved(resolved, next) ==
    IF next = None THEN resolved ELSE resolved \cup {next}

\* resolve.rs:183-186 / 189-192: a proof that is Ok contributes its DID.
ProofDids(res) == IF res.ok THEN {res.val} ELSE {}

\* The logs and the query counters are functions on the elements asked about.
Nothing == [x \in {} |-> 0]
Count(f, x) == IF x \in DOMAIN f THEN f[x] ELSE 0
Answer(f, x) == IF x \in DOMAIN f THEN f[x] ELSE Unasked
Bump(f, x) == IF x = None THEN f ELSE (x :> (Count(f, x) + 1)) @@ f
Log(f, x, a) == IF x = None THEN f ELSE (x :> a) @@ f

\* resolve.rs:156-159: the pass that finds the counter above the bound.
RDepthExceeded ==
    /\ rpc = "loop"
    /\ DepthExceeded(iterations + 1)
    /\ iterations' = iterations + 1
    /\ rpc' = "done"
    /\ rresult' = Err("resolve_handle exceeded max iteration depth")
    /\ UNCHANGED <<subject, resolved_dids, unresolved_dids, resolved_handles,
                   unresolved_handles, found_pds, found_handles, found_dids,
                   plcAns, httpAns, dnsAns, plcQ, httpQ, dnsQ, queryPasses>>
    /\ UNCHANGED NotResolver

\* resolve.rs:166-168 and 196-221: nothing is left to resolve; the loop
\* breaks and the function returns.
RFinish ==
    /\ rpc = "loop"
    /\ ~DepthExceeded(iterations + 1)
    /\ NextChoices(unresolved_dids, resolved_dids) = {None}
    /\ NextChoices(unresolved_handles, resolved_handles) = {None}
    /\ iterations' = iterations + 1
    /\ rpc' = "done"
    /\ rresult' = PostConditions(found_dids, found_handles, found_pds)
    /\ UNCHANGED <<subject, resolved_dids, unresolved_dids, resolved_handles,
                   unresolved_handles, found_pds, found_handles, found_dids,
                   plcAns, httpAns, dnsAns, plcQ, httpQ, dnsQ, queryPasses>>
    /\ UNCHANGED NotResolver

\* resolve.rs:161-193: one pass that queries: at most one DID and at most
\* one handle, both picked before either is queried.
RQueryPass ==
    /\ rpc = "loop"
    /\ ~DepthExceeded(iterations + 1)
    /\ \E next_did \in NextChoices(unresolved_dids, resolved_dids),
          next_handle \in NextChoices(unresolved_handles, resolved_handles) :
        /\ ~(next_did = None /\ next_handle = None)
        /\ \E pa \in PlcWorld(next_did), ha \in HttpWorld(next_handle),
              da \in DnsWorld(next_handle) :
            LET query_res == IF next_did = None THEN Err("none") ELSE plc_query(pa)
                http_resolve == IF next_handle = None THEN Err("none")
                                ELSE resolve_handle_http(ha)
                dns_resolve == IF next_handle = None THEN Err("none")
                               ELSE resolve_handle_dns(da)
                pds == IF query_res.ok THEN SeqToSet(query_res.val.pds) ELSE {}
                handles == IF query_res.ok THEN SeqToSet(query_res.val.handles)
                           ELSE {}
                dids == ProofDids(http_resolve) \cup ProofDids(dns_resolve)
            IN  /\ resolved_dids' = MarkResolved(resolved_dids, next_did)
                /\ found_pds' = found_pds \cup pds
                /\ found_handles' = found_handles \cup handles
                /\ unresolved_handles' = unresolved_handles \cup handles
                /\ resolved_handles' = MarkResolved(resolved_handles, next_handle)
                /\ unresolved_dids' = unresolved_dids \cup dids
                /\ found_dids' = found_dids \cup dids
                /\ plcAns' = Log(plcAns, next_did, pa)
                /\ httpAns' = Log(httpAns, next_handle, ha)
                /\ dnsAns' = Log(dnsAns, next_handle, da)
                /\ plcQ' = Bump(plcQ, next_did)
                /\ httpQ' = Bump(httpQ, next_handle)
                /\ dnsQ' = Bump(dnsQ, next_handle)
    /\ iterations' = iterations + 1
    /\ queryPasses' = queryPasses + 1
    /\ UNCHANGED <<subject, rpc, rresult>>
    /\ UNCHANGED NotResolver

\* resolve.rs:139-154: the state before the first pass.
RInitLocals ==
    /\ resolved_dids = {} /\ resolved_handles = {}
    /\ found_pds = {} /\ found_handles = {} /\ found_dids = {}
    /\ unresolved_dids = (IF StartsWith(subject, DidPrefix) THEN {subject} ELSE {})
    /\ unresolved_handles = (IF StartsWith(subject, DidPrefix) THEN {} ELSE {subject})
    /\ iterations = 0
    /\ rpc = "loop"
    /\ rresult = [ok |-> FALSE, err |-> "pending"]
    /\ plcQ = Nothing /\ httpQ = Nothing /\ dnsQ = Nothing
    /\ queryPasses = 0

\* The general family: nothing is known of the sources beforehand.
RInitGeneral ==
    /\ subject \in {DidA, H1}
    /\ plcAns = Nothing /\ httpAns = Nothing /\ dnsAns = Nothing

\* The deep family: DidA lists k handles and one PDS; each of these handles
\* publishes the same HTTPS proof (DidA, or none) and no DNS record.
DeepAka(k) == [i \in 1..k |-> AtPrefix \o DeepHandle(i)]
RInitDeep ==
    \E k \in 0..MaxDeepHandles, proof \in {Failed, [status |-> "ok", body |-> DidA]} :
        /\ subject \in {DidA} \cup {DeepHandle(i) : i \in 1..(IF k > 0 THEN 1 ELSE 0)}
        /\ plcAns = [d \in {DidA} |->
                       [status |-> "ok", also_known_as |-> DeepAka(k),
                        service |-> <<Service(PdsType, Pds1)>>]]
        /\ httpAns = [h \in {DeepHandle(i) : i \in 1..k} |-> proof]
        /\ dnsAns = [h \in {DeepHandle(i) : i \in 1..k} |-> Failed]

RInit == (RInitGeneral \/ RInitDeep) /\ RInitLocals

\* The order family: every answer is fixed beforehand.  DidA lists k handles
\* and one PDS; one of the handles (or none) publishes an HTTPS proof of
\* DidB and the other lookups fail; DidB's document is not served, or lists
\* the same PDS and no handle.
RInitOrder ==
    \E k \in 0..MaxDeepHandles : \E j \in 0..k,
       other \in {Failed, [status |-> "ok", also_known_as |-> <<>>,
                           service |-> <<Service(PdsType, Pds1)>>]} :
        /\ subject = DidA
        /\ plcAns = [d \in {DidA, DidB} |->
                       IF d = DidA
                       THEN [status |-> "ok", also_known_as |-> DeepAka(k),
                             service |-> <<Service(PdsType, Pds1)>>]
                       ELSE other]
        /\ httpAns = [h \in {DeepHandle(i) : i \in 1..k} |->
                        IF j > 0 /\ h = DeepHandle(j)
                        THEN [status |-> "ok", body |-> DidB] ELSE Failed]
        /\ dnsAns = [h \in {DeepHandle(i) : i \in 1..k} |-> Failed]

RNext == RDepthExceeded \/ RFinish \/ RQueryPass

(***************************************************************************)
(* actions/inputs.rs: validation of what the user types.                   *)
(***************************************************************************)
LowerChars == <<"a", "b", "c", "d", "e", "f", "g", "h", "i", "j", "k", "l", "m",
                "n", "o", "p", "q", "r", "s", "t", "u", "v", "w", "x", "y", "z">>
UpperChars == <<"A", "B", "C", "D", "E", "F", "G", "H", "I", "J", "K", "L", "M",
                "N", "O", "P", "Q", "R", "S", "T", "U", "V", "W", "X", "Y", "Z">>
DigitChars == <<"0", "1", "2", "3", "4", "5", "6", "7", "8", "9">>

\* char::to_lowercase on one token, str::to_lowercase on a string.
LowerOf(c) ==
    IF \E i \in 1..Len(UpperChars) : UpperChars[i] = c
    THEN LowerChars[CHOOSE i \in 1..Len(UpperChars) : UpperChars[i] = c]
    ELSE c
to_lowercase(s) == [i \in 1..Len(s) |-> LowerOf(s[i])]

\* The number of bytes of a token: a prefix token holds several.
TokenBytes(t) ==
    IF t = "at://" THEN 5
    ELSE IF t \in {"did:", "plc:", "web:", "did="} THEN 4
    ELSE 1
RECURSIVE ByteLen(_)
ByteLen(s) ==
    IF s = <<>> THEN 0
    ELSE IF Len(s) = 1 THEN TokenBytes(s[1])
    ELSE ByteLen(SubSeq(s, 1, Len(s) \div 2))
         + ByteLen(SubSeq(s, Len(s) \div 2 + 1, Len(s)))

\* A test that lets every byte pass.
is_valid_char_any(byte) == TRUE

\* inputs.rs:31-37
is_valid_char(byte) ==
    \/ byte \in SeqToSet(LowerChars)
    \/ byte \in SeqToSet(UpperChars)
    \/ byte \in SeqToSet(DigitChars)
    \/ byte = "-"
    \/ byte = "."

\* str::split('.'): the labels between the dots.
SplitDots(s) == {i \in 1..Len(s) : s[i] = "."}
Labels(s) ==
    LET dots == SplitDots(s)
        starts == {1} \cup {i + 1 : i \in dots}
        start(k) == CHOOSE b \in starts : Cardinality({x \in starts : x < b}) = k - 1
        end(b) == CHOOSE e \in (b - 1)..Len(s) :
                      /\ e = Len(s) \/ (e + 1) \in dots
                      /\ \A i \in b..e : i \notin dots
    IN  [k \in 1..(Cardinality(dots) + 1) |-> SubSeq(s, start(k), end(start(k)))]

MaxLabelLen == 63
MaxHostnameLen == 253

\* inputs.rs:30-48
is_valid_hostname(hostname) ==
    ~(\/ EndsWith(hostname, <<".", "l", "o", "c", "a", "l", "h", "o", "s", "t">>)
      \/ EndsWith(hostname, <<".", "i", "n", "t", "e", "r", "n", "a", "l">>)
      \/ EndsWith(hostname, <<".", "a", "r", "p", "a">>)
      \/ EndsWith(hostname, <<".", "l", "o", "c", "a", "l">>)
      \/ \E i \in 1..Len(hostname) : ~is_valid_char(hostname[i])
      \/ \E i \in 1..Len(Labels(hostname)) :
            LET label == Labels(hostname)[i]
            IN  \/ label = <<>>
                \/ ByteLen(label) > MaxLabelLen
                \/ StartsWith(label, <<"-">>)
                \/ EndsWith(label, <<"-">>)
      \/ hostname = <<>>
      \/ ByteLen(hostname) > MaxHostnameLen)

\* A handle validation that keeps the case of what was typed.
is_valid_handle_case_kept(handle) ==
    LET stripped == IF HasPrefix(handle, AtPrefix) THEN StripPrefix(handle, AtPrefix)
                    ELSE IF HasPrefix(handle, <<"@">>) THEN StripPrefix(handle, <<"@">>)
                    ELSE handle
    IN  IF is_valid_hostname(stripped) /\ (\E i \in 1..Len(stripped) : stripped[i] = ".")
        THEN stripped
        ELSE None

\* inputs.rs:50-66: Some(handle) or None
is_valid_handle(handle) ==
    LET stripped == IF HasPrefix(handle, AtPrefix) THEN StripPrefix(handle, AtPrefix)
                    ELSE IF HasPrefix(handle, <<"@">>) THEN StripPrefix(handle, <<"@">>)
                    ELSE handle
        trimmed == to_lowercase(stripped)
    IN  IF is_valid_hostname(trimmed) /\ (\E i \in 1..Len(trimmed) : trimmed[i] = ".")
        THEN trimmed
        ELSE None

\* inputs.rs:68-81: Some(did) or None
is_valid_did_plc(input) ==
    LET trimmed == IF HasPrefix(input, AtPrefix) THEN StripPrefix(input, AtPrefix)
                   ELSE input
    IN  IF StartsWith(trimmed, DidPlcPrefix) THEN trimmed ELSE None

(***************************************************************************)
(* crypto.rs: keys and signatures.  A secret JWK is [crv, d]; the public    *)
(* point, the ECDSA signature and the encodings are kept symbolic.          *)
(***************************************************************************)
P256Prefix == <<128, 36>>        \* [0x80, 0x24]
K256Prefix == <<231, 1>>         \* [0xe7, 0x01]

PublicPoint(curve, d) == [curve |-> curve, of |-> d]
Multibase(bytes, point) == [base |-> "base58btc", prefix |-> bytes, point |-> point]
EcdsaSign(curve, d, payload) == [curve |-> curve, key |-> d, msg |-> payload]
B64Url(sig) == [b64url |-> sig]

\* SecretKey::try_from(&JwkEcKey) of a curve: the JWK's crv must be that
\* curve and it must hold the secret scalar d.
SecretKeyOk(jwk, curve) == jwk.crv = curve /\ jwk.d # "absent"

\* p256::jwk_to_did_key, crypto.rs:86-96
p256_jwk_to_did_key(jwk) ==
    IF SecretKeyOk(jwk, "P-256")
    THEN Ok(Multibase(P256Prefix, PublicPoint("P-256", jwk.d)))
    ELSE Err("invalid P-256 key")

\* k256::jwk_to_did_key, crypto.rs:131-141
k256_jwk_to_did_key(jwk) ==
    IF SecretKeyOk(jwk, "secp256k1")
    THEN Ok(Multibase(K256Prefix, PublicPoint("secp256k1", jwk.d)))
    ELSE Err("invalid secp256k1 key")

\* p256::sign_operation, crypto.rs:98-103
p256_sign_operation(jwk, payload) ==
    IF SecretKeyOk(jwk, "P-256")
    THEN Ok(B64Url(EcdsaSign("P-256", jwk.d, payload)))
    ELSE Err("invalid P-256 key")

\* k256::sign_operation, crypto.rs:143-148
k256_sign_operation(jwk, payload) ==
    IF SecretKeyOk(jwk, "secp256k1")
    THEN Ok(B64Url(EcdsaSign("secp256k1", jwk.d, payload)))
    ELSE Err("invalid secp256k1 key")

\* jwk_to_did_key, crypto.rs:53-59
jwk_to_did_key(jwk) ==
    CASE jwk.crv = "P-256" -> p256_jwk_to_did_key(jwk)
      [] jwk.crv = "secp256k1" -> k256_jwk_to_did_key(jwk)
      [] OTHER -> Err("unsupported curve")

\* p256::gen_key, crypto.rs:71-84, and k256::gen_key, crypto.rs:116-129, for
\* the secret scalar d that SecretKey::random drew: the secret as a JWK
\* string and the encoded public key.
JwkString(curve, d) == [format |-> "jwk", crv |-> curve, d |-> d]
p256_gen_key(d) ==
    Ok([secret |-> JwkString("P-256", d),
        public |-> Multibase(P256Prefix, PublicPoint("P-256", d))])
k256_gen_key(d) ==
    Ok([secret |-> JwkString("secp256k1", d),
        public |-> Multibase(K256Prefix, PublicPoint("secp256k1", d))])

GeneratedSecrets == {"g1", "g2"}

\* What the process does when an index is out of range.
Panic == [ok |-> FALSE, err |-> "panicked"]

\* multibase::decode, crypto.rs:7: the bytes behind the base character, here
\* the leading bytes and the encoded point behind them (NoPoint: no bytes).
NoPoint == [curve |-> "none", of |-> "none"]
multibase_decode(multibase_key) ==
    IF multibase_key.base = "base58btc"
    THEN Ok([prefix |-> multibase_key.prefix, point |-> multibase_key.point])
    ELSE Err("invalid multibase string")
DecodedLen(decoded) == Len(decoded.prefix) + (IF decoded.point = NoPoint THEN 0 ELSE 33)

\* ecdsa::Signature::from_slice, VerifyingKey::from_sec1_bytes and
\* Verifier::verify of one curve, crypto.rs:11-14 and 19-22: the signature
\* must be well-formed, the point one of the curve, and the signature the
\* one made over the content with the secret of the point.
VerifyWith(curve, point, signature, content) ==
    IF signature.curve = "none" THEN Err("malformed signature")
    ELSE IF point.curve # curve THEN Err("not a key of the curve")
    ELSE IF signature = EcdsaSign(curve, point.of, content) THEN Ok("unit")
    ELSE Err("signature error")

\* A validate that verifies with the curve of the point, whatever the prefix.
validate_any_prefix(multibase_key, signature, content) ==
    LET decoded == multibase_decode(multibase_key)
    IN  IF ~decoded.ok THEN decoded
        ELSE IF DecodedLen(decoded.val) < 2 THEN Panic
        ELSE VerifyWith(decoded.val.point.curve, decoded.val.point, signature, content)

\* validate, crypto.rs:6-30
validate(multibase_key, signature, content) ==
    LET decoded == multibase_decode(multibase_key)
    IN  IF ~decoded.ok THEN decoded
        ELSE IF DecodedLen(decoded.val) < 2 THEN Panic
        ELSE CASE decoded.val.prefix = K256Prefix ->
                    VerifyWith("secp256k1", decoded.val.point, signature, content)
               [] decoded.val.prefix = P256Prefix ->
                    VerifyWith("P-256", decoded.val.point, signature, content)
               [] OTHER -> Err("invalid multibase")

\* JwkEcKey::from_str and SecretKey::from_sec1_pem on a secret string.
jwk_from_str(secret) ==
    IF secret.format = "jwk" THEN Ok([crv |-> secret.crv, d |-> secret.d])
    ELSE Err("failed to parse JWK")
from_sec1_pem(secret) ==
    IF secret.format = "sec1_pem" THEN Ok([crv |-> secret.crv, d |-> secret.d])
    ELSE Err("PEM error")

\* tests::test_validate_p256, crypto.rs:158-174
test_validate_p256(d, content) ==
    LET generated == p256_gen_key(d)
        secret_key == from_sec1_pem(generated.val.secret)
    IN  IF ~secret_key.ok THEN secret_key
        ELSE validate(generated.val.public,
                      EcdsaSign("P-256", secret_key.val.d, content), content)

\* serde_ipld_dagcbor::to_vec of a JSON object (crypto.rs:33): the entries
\* in the canonical key order (shorter keys first, then bytewise).
KeyOrder == <<"sig", "prev", "type", "services", "alsoKnownAs",
              "rotationKeys", "verificationMethods">>
DagCbor(operation) ==
    LET keys == SelectSeq(KeyOrder, LAMBDA k : k \in DOMAIN operation)
    IN  [i \in 1..Len(keys) |-> <<keys[i], operation[keys[i]]>>]

\* sign_operation, crypto.rs:32-52
sign_operation(jwk, operation) ==
    LET serialized_operation == DagCbor(operation)
        signature_str ==
            CASE jwk.crv = "P-256" -> p256_sign_operation(jwk, serialized_operation)
              [] jwk.crv = "secp256k1" -> k256_sign_operation(jwk, serialized_operation)
              [] OTHER -> Err("unsupported curve")
    IN  IF signature_str.ok
        THEN Ok(("sig" :> signature_str.val) @@ operation)
        ELSE signature_str

(***************************************************************************)
(* plc.rs: the audit log and the submission.                               *)
(***************************************************************************)
Null == <<>>
Cid(n) == <<"cid", n>>

\* Vec::sort_by_key (stable): an entry goes behind the entries whose key is
\* not greater.
RECURSIVE InsertByKey(_, _)
InsertByKey(sorted, e) ==
    IF sorted = <<>> THEN <<e>>
    ELSE IF sorted[Len(sorted)].created_at <= e.created_at THEN Append(sorted, e)
    ELSE Append(InsertByKey(SubSeq(sorted, 1, Len(sorted) - 1), e),
                sorted[Len(sorted)])
RECURSIVE SortFrom(_, _)
SortFrom(sorted, rest) ==
    IF rest = <<>> THEN sorted
    ELSE SortFrom(InsertByKey(sorted, Head(rest)), Tail(rest))
\* A sort that puts an entry before the entries of the same key.
RECURSIVE InsertBeforeEqual(_, _)
InsertBeforeEqual(sorted, e) ==
    IF sorted = <<>> THEN <<e>>
    ELSE IF sorted[Len(sorted)].created_at < e.created_at THEN Append(sorted, e)
    ELSE Append(InsertBeforeEqual(SubSeq(sorted, 1, Len(sorted) - 1), e),
                sorted[Len(sorted)])
RECURSIVE SortFromReversing(_, _)
SortFromReversing(sorted, rest) ==
    IF rest = <<>> THEN sorted
    ELSE SortFromReversing(InsertBeforeEqual(sorted, Head(rest)), Tail(rest))
sort_by_key_reversing(entries) == SortFromReversing(<<>>, entries)

\* Vec::sort_by_key, plc.rs:100
sort_by_key(entries) == SortFrom(<<>>, entries)

\* did_plc_last_operation, plc.rs:82-108, on what the GET returned.
did_plc_last_operation(response) ==
    IF response.kind = "transport" THEN Err("unable to get DID audit log")
    ELSE IF response.kind = "not_json_list"
    THEN Err("unable to deserialize DID audit log")
    ELSE LET operations == sort_by_key(response.entries)
         IN  IF operations = <<>> THEN Err("no operations found")
             ELSE Ok([cid |-> operations[Len(operations)].cid,
                      operation |-> operations[Len(operations)].operation])

\* A test that takes a client error for a success.
is_success_lenient(status) == 200 <= status /\ status <= 499

\* StatusCode::is_success, plc.rs:125
is_success(status) == 200 <= status /\ status <= 299

\* A submission that takes every answer for a success.
submit_operation_any_answer(response) ==
    IF response.kind = "transport" THEN Err("unable to submit operation")
    ELSE Ok("unit")

\* submit_operation, plc.rs:110-132, on what the POST returned.
submit_operation(response) ==
    IF response.kind = "transport" THEN Err("unable to submit operation")
    ELSE IF is_success(response.status) THEN Ok("unit")
    ELSE Err(<<"response", response.status>>)

(***************************************************************************)
(* json_patch::patch as append_handle.rs:74-83 uses it: add at the end of   *)
(* an array member, add a member, remove a member, replace a member.  An    *)
(* operation is a function from its member names to their values.           *)
(***************************************************************************)
Without(doc, k) == [x \in (DOMAIN doc) \ {k} |-> doc[x]]

\* A patcher that lets a directive on a missing member pass.
ApplyOp_lenient(doc, p) ==
    CASE p.op = "add" /\ Len(p.path) = 2 /\ p.path[2] = "-" ->
            IF p.path[1] \in DOMAIN doc
            THEN Ok([doc EXCEPT ![p.path[1]] = Append(@, p.value)])
            ELSE Ok((p.path[1] :> <<p.value>>) @@ doc)
      [] p.op = "add" /\ Len(p.path) = 1 ->
            Ok((p.path[1] :> p.value) @@ doc)
      [] p.op = "remove" /\ Len(p.path) = 1 ->
            Ok(Without(doc, p.path[1]))
      [] p.op = "replace" /\ Len(p.path) = 1 ->
            Ok((p.path[1] :> p.value) @@ Without(doc, p.path[1]))
      [] OTHER -> Err("unsupported patch operation")

\* An array index of a JSON pointer.
IsIndex(token) == token \in {"0", "1", "2"}
ParseIndex(token) == CASE token = "0" -> 0 [] token = "1" -> 1 [] token = "2" -> 2
InsertAt(array, idx, value) ==
    SubSeq(array, 1, idx) \o <<value>> \o SubSeq(array, idx + 1, Len(array))

\* One directive of json_patch::patch.
ApplyOp(doc, p) ==
    CASE p.op = "add" /\ Len(p.path) = 2 /\ p.path[2] = "-" ->
            IF p.path[1] \in DOMAIN doc
            THEN Ok([doc EXCEPT ![p.path[1]] = Append(@, p.value)])
            ELSE Err("invalid pointer")
      [] p.op = "add" /\ Len(p.path) = 2 /\ IsIndex(p.path[2]) ->
            IF p.path[1] \in DOMAIN doc /\ ParseIndex(p.path[2]) <= Len(doc[p.path[1]])
            THEN Ok([doc EXCEPT ![p.path[1]] = InsertAt(@, ParseIndex(p.path[2]), p.value)])
            ELSE Err("invalid pointer")
      [] p.op = "add" /\ Len(p.path) = 1 ->
            Ok((p.path[1] :> p.value) @@ doc)
      [] p.op = "remove" /\ Len(p.path) = 1 ->
            IF p.path[1] \in DOMAIN doc THEN Ok(Without(doc, p.path[1]))
            ELSE Err("invalid pointer")
      [] p.op = "replace" /\ Len(p.path) = 1 ->
            IF p.path[1] \in DOMAIN doc
            THEN Ok([doc EXCEPT ![p.path[1]] = p.value])
            ELSE Err("invalid pointer")
      [] OTHER -> Err("unsupported patch operation")

\* The directives are applied in order, each to the result of the one
\* before; the first failure is the result.
RECURSIVE patch(_, _)
patch(doc, directives) ==
    IF directives = <<>> THEN Ok(doc)
    ELSE LET first == ApplyOp(doc, Head(directives))
         IN  IF first.ok THEN patch(first.val, Tail(directives)) ELSE first

\* The patch without its remove of /sig.
operation_patch_keeps_sig(new_handle, last_commit) ==
    << [op |-> "add", path |-> <<"alsoKnownAs", "-">>, value |-> AtPrefix \o new_handle],
       [op |-> "replace", path |-> <<"prev">>, value |-> last_commit] >>

\* The patch with the handle put in front of the list.
operation_patch_prepends(new_handle, last_commit) ==
    << [op |-> "add", path |-> <<"alsoKnownAs", "0">>, value |-> AtPrefix \o new_handle],
       [op |-> "remove", path |-> <<"sig">>],
       [op |-> "replace", path |-> <<"prev">>, value |-> last_commit] >>

\* The patch without its replace of /prev.
operation_patch_keeps_prev(new_handle, last_commit) ==
    << [op |-> "add", path |-> <<"alsoKnownAs", "-">>, value |-> AtPrefix \o new_handle],
       [op |-> "remove", path |-> <<"sig">>] >>

\* append_handle.rs:74-79
operation_patch(new_handle, last_commit) ==
    << [op |-> "add", path |-> <<"alsoKnownAs", "-">>, value |-> AtPrefix \o new_handle],
       [op |-> "remove", path |-> <<"sig">>],
       [op |-> "replace", path |-> <<"prev">>, value |-> last_commit] >>

(***************************************************************************)
(* The PLC directory: the log of one DID.  Its acceptance rule is the       *)
(* specification's: a submission is accepted when its prev is the cid of    *)
(* the log's last operation.                                               *)
(***************************************************************************)
KnownDid == DidA
DirTip == IF dir_log = <<>> THEN Null ELSE dir_log[Len(dir_log)].cid
DirAccepts(operation) ==
    /\ "prev" \in DOMAIN operation /\ "sig" \in DOMAIN operation
    /\ operation.prev = DirTip
DirAppend(operation) ==
    Append(dir_log, [operation |-> operation, cid |-> Cid(Len(dir_log) + 1),
                     created_at |-> MaxTime + Len(dir_log) + 1])
AcceptStatuses == {200, 204}
RejectStatuses == {409, 500}

\* GET https://{plc}/{did}/log/audit: the request fails, or the directory
\* lists the log; of a DID it holds no operation of it may list nothing or
\* answer with an error body.
AuditResponses(did) ==
    {[kind |-> "transport"]}
    \cup (IF did = KnownDid THEN {[kind |-> "json", entries |-> dir_log]} ELSE {})
    \cup (IF did # KnownDid \/ dir_log = <<>> THEN {[kind |-> "not_json_list"]} ELSE {})

\* The operations the log holds before the runs start.
GenesisFields ==
    [type |-> "plc_operation",
     rotationKeys |-> <<"did:key:r1">>,
     verificationMethods |-> [atproto |-> "did:key:s1"],
     services |-> [atproto_pds |-> Service(PdsType, Pds1)],
     alsoKnownAs |-> <<AtPrefix \o H1>>]
FullOperation(prev, n) ==
    [k \in {"type", "rotationKeys", "verificationMethods", "services",
            "alsoKnownAs", "prev", "sig"} |->
        CASE k = "prev" -> prev
          [] k = "sig" -> B64Url(EcdsaSign("P-256", "r1", <<<<"operation", n>>>>))
          [] OTHER -> GenesisFields[k]]
Shapes == {"full", "no_alsoKnownAs", "no_sig", "no_prev"}
Shaped(operation, shape) ==
    CASE shape = "no_alsoKnownAs" -> Without(operation, "alsoKnownAs")
      [] shape = "no_sig" -> Without(operation, "sig")
      [] shape = "no_prev" -> Without(operation, "prev")
      [] OTHER -> operation
InitialLog(times, shape) ==
    [i \in 1..Len(times) |->
        [operation |-> IF i = Len(times)
                       THEN Shaped(FullOperation(IF i = 1 THEN Null ELSE Cid(i - 1), i), shape)
                       ELSE FullOperation(IF i = 1 THEN Null ELSE Cid(i - 1), i),
         cid |-> Cid(i),
         created_at |-> times[i]]]

(***************************************************************************)
(* ActionAppendHandle::run, append_handle.rs:30-112, one step at a time.    *)
(***************************************************************************)
Runs == {1, 2}
Pending == [ok |-> FALSE, err |-> "pending"]

\* What the user may type.
DidInputs == {DidA, AtPrefix \o DidA, <<"did:", "web:", "a">>}
JwkInputs ==
    { [parsed |-> FALSE],
      [parsed |-> TRUE, crv |-> "P-256", d |-> "k1"],
      [parsed |-> TRUE, crv |-> "secp256k1", d |-> "k2"],
      [parsed |-> TRUE, crv |-> "P-256", d |-> "absent"] }
HandleInputs ==
    { <<"c", ".", "t">>, <<"@", "C", ".", "t">>, AtPrefix \o <<"d", ".", "t">>,
      <<"c">>, <<"c", ".", "l", "o", "c", "a", "l">> }

\* get_did_plc_input / get_jwk_input / get_handle_input, inputs.rs:6-28
get_did_plc_input(typed) ==
    IF is_valid_did_plc(typed) = None THEN Err("invalid DID-PLC")
    ELSE Ok(is_valid_did_plc(typed))
get_jwk_input(typed) ==
    IF typed.parsed THEN Ok([crv |-> typed.crv, d |-> typed.d])
    ELSE Err("failed to parse JWK")
get_handle_input(typed) ==
    IF is_valid_handle(typed) = None THEN Err("invalid handle")
    ELSE Ok(is_valid_handle(typed))

\* A run that goes on after an Err.
Try_goes_on(res, next) == next

\* The ? operator: an Err is returned from run at once, an Ok goes on.
Try(res, next) == IF res.ok THEN next ELSE "done"
Returned(res) == IF res.ok THEN Pending ELSE res

Set(f, r, v) == [f EXCEPT ![r] = v]
Did(f, r, step) == [f EXCEPT ![r] = Append(@, step)]

\* append_handle.rs:38-43: the three prompts, each validated when read.
AInputs(r) ==
    /\ apc[r] = "inputs"
    /\ \E did_typed \in DidInputs, jwk_typed \in JwkInputs, handle_typed \in HandleInputs :
        LET did == get_did_plc_input(did_typed)
            jwk == get_jwk_input(jwk_typed)
            new_handle == get_handle_input(handle_typed)
            res == IF ~did.ok THEN did ELSE IF ~jwk.ok THEN jwk ELSE new_handle
        IN  /\ a_did' = Set(a_did, r, IF did.ok THEN did.val ELSE None)
            /\ a_jwk' = Set(a_jwk, r, IF did.ok /\ jwk.ok THEN jwk.val ELSE Nothing)
            /\ a_new_handle' = Set(a_new_handle, r, IF res.ok THEN res.val ELSE None)
            /\ a_steps' = Set(a_steps, r,
                    <<"get_did_plc_input">>
                    \o (IF did.ok THEN <<"get_jwk_input">> ELSE <<>>)
                    \o (IF did.ok /\ jwk.ok THEN <<"get_handle_input">> ELSE <<>>))
            /\ apc' = Set(apc, r, Try(res, "derive"))
            /\ aresult' = Set(aresult, r, Returned(res))
    /\ UNCHANGED <<a_did_key, a_last_commit, a_last_operation, a_operation,
                   a_signed, a_fetched, a_posts, a_response, dir_log, dir_verdict>>
    /\ UNCHANGED NotAppend

\* append_handle.rs:45
ADerive(r) ==
    /\ apc[r] = "derive"
    /\ LET did_key == p256_jwk_to_did_key(a_jwk[r])
       IN  /\ a_did_key' = Set(a_did_key, r, IF did_key.ok THEN did_key.val ELSE Nothing)
           /\ apc' = Set(apc, r, Try(did_key, "fetch"))
           /\ aresult' = Set(aresult, r, Returned(did_key))
    /\ a_steps' = Did(a_steps, r, "jwk_to_did_key")
    /\ UNCHANGED <<a_did, a_jwk, a_new_handle, a_last_commit, a_last_operation,
                   a_operation, a_signed, a_fetched, a_posts, a_response, dir_log, dir_verdict>>
    /\ UNCHANGED NotAppend

\* append_handle.rs:56-57
AFetch(r) ==
    /\ apc[r] = "fetch"
    /\ \E response \in AuditResponses(a_did[r]) :
        LET last == did_plc_last_operation(response)
        IN  /\ a_fetched' = Set(a_fetched, r, response)
            /\ a_last_commit' = Set(a_last_commit, r, IF last.ok THEN last.val.cid ELSE Null)
            /\ a_last_operation' =
                   Set(a_last_operation, r, IF last.ok THEN last.val.operation ELSE Nothing)
            /\ apc' = Set(apc, r, Try(last, "patch"))
            /\ aresult' = Set(aresult, r, Returned(last))
    /\ a_steps' = Did(a_steps, r, "did_plc_last_operation")
    /\ UNCHANGED <<a_did, a_jwk, a_new_handle, a_did_key, a_operation, a_signed,
                   a_posts, a_response, dir_log, dir_verdict>>
    /\ UNCHANGED NotAppend

\* append_handle.rs:74-83
APatch(r) ==
    /\ apc[r] = "patch"
    /\ LET patched == patch(a_last_operation[r],
                            operation_patch(a_new_handle[r], a_last_commit[r]))
       IN  /\ a_operation' = Set(a_operation, r, IF patched.ok THEN patched.val ELSE Nothing)
           /\ apc' = Set(apc, r, Try(patched, "sign"))
           /\ aresult' = Set(aresult, r, Returned(patched))
    /\ a_steps' = Did(a_steps, r, "patch")
    /\ UNCHANGED <<a_did, a_jwk, a_new_handle, a_did_key, a_last_commit,
                   a_last_operation, a_signed, a_fetched, a_posts, a_response, dir_log, dir_verdict>>
    /\ UNCHANGED NotAppend

\* append_handle.rs:98
ASign(r) ==
    /\ apc[r] = "sign"
    /\ LET signed_operation == sign_operation(a_jwk[r], a_operation[r])
       IN  /\ a_signed' = Set(a_signed, r,
                              IF signed_operation.ok THEN signed_operation.val ELSE Nothing)
           /\ apc' = Set(apc, r, Try(signed_operation, "submit"))
           /\ aresult' = Set(aresult, r, Returned(signed_operation))
    /\ a_steps' = Did(a_steps, r, "sign_operation")
    /\ UNCHANGED <<a_did, a_jwk, a_new_handle, a_did_key, a_last_commit,
                   a_last_operation, a_operation, a_fetched, a_posts, a_response, dir_log, dir_verdict>>
    /\ UNCHANGED NotAppend

\* append_handle.rs:108-111: the POST reaches the directory, which accepts
\* or rejects it and answers; or the POST fails before it is delivered; or
\* the answer is lost.
ASubmit(r) ==
    /\ apc[r] = "submit"
    /\ \E delivered \in BOOLEAN, answered \in BOOLEAN :
        /\ answered => delivered
        /\ \E response \in
                (IF ~answered THEN {[kind |-> "transport"]}
                 ELSE [kind : {"http"},
                       status : IF DirAccepts(a_signed[r]) THEN AcceptStatuses
                                ELSE RejectStatuses]) :
            LET res == submit_operation(response)
            IN  /\ a_response' = Set(a_response, r, response)
                /\ aresult' = Set(aresult, r, res)
        /\ dir_log' = IF delivered /\ DirAccepts(a_signed[r])
                      THEN DirAppend(a_signed[r]) ELSE dir_log
        /\ dir_verdict' = Set(dir_verdict, r,
                               IF ~delivered THEN "undelivered"
                               ELSE IF DirAccepts(a_signed[r]) THEN "accepted"
                               ELSE "rejected")
    /\ a_posts' = Did(a_posts, r, a_signed[r])
    /\ apc' = Set(apc, r, "done")
    /\ a_steps' = Did(a_steps, r, "submit_operation")
    /\ UNCHANGED <<a_did, a_jwk, a_new_handle, a_did_key, a_last_commit,
                   a_last_operation, a_operation, a_signed, a_fetched>>
    /\ UNCHANGED NotAppend

\* The runs before their first step (apc says which runs take part).
AInitLocals(pcs) ==
    /\ apc = pcs
    /\ a_did = [r \in Runs |-> None]
    /\ a_jwk = [r \in Runs |-> Nothing]
    /\ a_new_handle = [r \in Runs |-> None]
    /\ a_did_key = [r \in Runs |-> Nothing]
    /\ a_last_commit = [r \in Runs |-> Null]
    /\ a_last_operation = [r \in Runs |-> Nothing]
    /\ a_operation = [r \in Runs |-> Nothing]
    /\ a_signed = [r \in Runs |-> Nothing]
    /\ aresult = [r \in Runs |-> Pending]
    /\ a_steps = [r \in Runs |-> <<>>]
    /\ a_fetched = [r \in Runs |-> [kind |-> "none"]]
    /\ a_posts = [r \in Runs |-> <<>>]
    /\ a_response = [r \in Runs |-> [kind |-> "none"]]
    /\ dir_verdict = [r \in Runs |-> "none"]

\* No Append Handle run takes part.
AIdle ==
    /\ AInitLocals([r \in Runs |-> "done"])
    /\ dir_log = <<>>

\* resolve_handle is not running.
RIdle ==
    /\ subject = DidA
    /\ resolved_dids = {} /\ resolved_handles = {}
    /\ unresolved_dids = {} /\ unresolved_handles = {}
    /\ found_pds = {} /\ found_handles = {} /\ found_dids = {}
    /\ iterations = 0 /\ rpc = "done" /\ rresult = Pending
    /\ plcAns = Nothing /\ httpAns = Nothing /\ dnsAns = Nothing
    /\ plcQ = Nothing /\ httpQ = Nothing /\ dnsQ = Nothing
    /\ queryPasses = 0

\* No function is called on its own.
NoValue == [none |-> TRUE]
PIdle == v_pc = "idle" /\ v_call = NoValue /\ v_ret = NoValue

\* Neither Install Tandem Key nor Create Account runs.
ELocals ==
    /\ e_typed = Nothing /\ e_handle = None
    /\ e_key_type = 0 /\ e_key_position = 0
    /\ e_resolved = NoValue /\ e_key = NoValue
    /\ e_doc = Nothing /\ e_patched = Nothing /\ e_operation = NoValue
    /\ e_requests = <<>> /\ eresult = Pending
EIdle == e_entry = "none" /\ epc = "done" /\ ELocals

\* Two Append Handle runs and a directory whose log holds up to MaxInitLog
\* operations.
AInit ==
    /\ AInitLocals([r \in Runs |-> "inputs"])
    /\ \E n \in 0..MaxInitLog : \E times \in [1..n -> 1..MaxTime], shape \in Shapes :
          dir_log = InitialLog(times, shape)
    /\ RIdle /\ PIdle /\ EIdle

ANext ==
    \E r \in Runs :
        AInputs(r) \/ ADerive(r) \/ AFetch(r) \/ APatch(r) \/ ASign(r) \/ ASubmit(r)

(***************************************************************************)
(* The specifications.                                                     *)
(***************************************************************************)
\* resolve_handle on one subject.
Init == RInit /\ AIdle /\ PIdle /\ EIdle
Next == RNext
Spec == Init /\ [][Next]_vars

\* resolve_handle against sources whose answers are all fixed beforehand.
OInit == RInitOrder /\ RInitLocals /\ AIdle /\ PIdle /\ EIdle
SpecOrder == OInit /\ [][RNext]_vars

\* Two concurrent Append Handle runs against one directory.
SpecAppend == AInit /\ [][ANext]_vars

\* did_plc_last_operation on an audit log of up to MaxAuditLen entries with
\* any timestamps, listed in any order: run 1 is about to fetch it.
AuditListing(times, order) ==
    [i \in 1..Len(times) |->
        [operation |-> FullOperation(IF order[i] = 1 THEN Null ELSE Cid(order[i] - 1),
                                     order[i]),
         cid |-> Cid(order[i]),
         created_at |-> times[order[i]]]]
LInit ==
    /\ apc = [r \in Runs |-> IF r = 1 THEN "fetch" ELSE "done"]
    /\ a_did = [r \in Runs |-> IF r = 1 THEN DidA ELSE None]
    /\ a_jwk = [r \in Runs |-> IF r = 1 THEN [crv |-> "P-256", d |-> "k1"] ELSE Nothing]
    /\ a_new_handle = [r \in Runs |-> IF r = 1 THEN <<"c", ".", "t">> ELSE None]
    /\ a_did_key = [r \in Runs |->
            IF r = 1 THEN p256_jwk_to_did_key([crv |-> "P-256", d |-> "k1"]).val
            ELSE Nothing]
    /\ a_last_commit = [r \in Runs |-> Null]
    /\ a_last_operation = [r \in Runs |-> Nothing]
    /\ a_operation = [r \in Runs |-> Nothing]
    /\ a_signed = [r \in Runs |-> Nothing]
    /\ aresult = [r \in Runs |-> Pending]
    /\ a_steps = [r \in Runs |->
            IF r = 1 THEN <<"get_did_plc_input", "get_jwk_input", "get_handle_input",
                            "jwk_to_did_key">>
            ELSE <<>>]
    /\ a_fetched = [r \in Runs |-> [kind |-> "none"]]
    /\ a_posts = [r \in Runs |-> <<>>]
    /\ a_response = [r \in Runs |-> [kind |-> "none"]]
    /\ dir_verdict = [r \in Runs |-> "none"]
    /\ \E n \in 0..MaxAuditLen : \E times \in [1..n -> 1..MaxTime],
                                     order \in Permutations(1..n) :
          dir_log = AuditListing(times, order)
    /\ RIdle /\ PIdle /\ EIdle
LNext == AFetch(1)
SpecLastOp == LInit /\ [][LNext]_vars

\* is_valid_hostname on one string: every string of up to MaxHostLen bytes
\* over HostChars, names around the reserved suffixes, and names around the
\* two length limits.
HostChars == {"a", "Z", "1", "-", ".", "@"}
RECURSIVE StringsUpTo(_)
StringsUpTo(n) ==
    IF n = 0 THEN {<<>>}
    ELSE LET shorter == StringsUpTo(n - 1)
         IN  shorter \cup {Append(s, c) : s \in {t \in shorter : Len(t) = n - 1},
                                          c \in HostChars}
Rep(c, n) == [i \in 1..n |-> c]
Dot == <<".">>
SuffixLike ==
    { <<".", "l", "o", "c", "a", "l">>,
      <<".", "l", "o", "c", "a", "l", "h", "o", "s", "t">>,
      <<".", "i", "n", "t", "e", "r", "n", "a", "l">>,
      <<".", "a", "r", "p", "a">>,
      <<".", "L", "O", "C", "A", "L">>,
      <<".", "l", "o", "c", "a", "l", "s">>,
      <<".", "a", "r", "p">>,
      <<"l", "o", "c", "a", "l">>,
      <<".", "c", "o", "m">> }
SuffixInputs ==
    {pre \o suf : pre \in {<<>>, <<"a">>, <<"F", "o", "o">>, <<"a", ".", "b">>,
                            <<"a", "-">>, <<"@">>},
                  suf \in SuffixLike}
LongInputs ==
    {Rep("a", n) : n \in (MaxLabelLen - 1)..(MaxLabelLen + 1)}
    \cup {Rep("a", n) \o Dot \o Rep("b", m) :
             n \in {1, MaxLabelLen}, m \in MaxLabelLen..(MaxLabelLen + 1)}
    \cup {Rep("a", 63) \o Dot \o Rep("b", 63) \o Dot \o Rep("c", 63) \o Dot \o Rep("d", n) :
             n \in (MaxHostnameLen - 193)..(MaxHostnameLen - 190)}
HostnameInputs == StringsUpTo(MaxHostLen) \cup SuffixInputs \cup LongInputs

\* validate on one key, signature and content; the key round trip and the
\* test of it on one generated key and content.
Contents == {"m1", "m2"}
Curves == {"P-256", "secp256k1"}
PrefixOf(curve) == IF curve = "P-256" THEN P256Prefix ELSE K256Prefix
KeyInputs ==
    {[base |-> "invalid", prefix |-> <<>>, point |-> NoPoint]}
    \cup {[base |-> "base58btc", prefix |-> bytes, point |-> NoPoint] :
             bytes \in {<<>>, <<128>>, <<231>>, P256Prefix}}
    \cup {[base |-> "base58btc", prefix |-> bytes, point |-> PublicPoint(curve, d)] :
             bytes \in {P256Prefix, K256Prefix, <<18, 0>>},
             curve \in Curves, d \in GeneratedSecrets}
SignatureInputs ==
    {EcdsaSign(curve, d, content) :
        curve \in Curves, d \in GeneratedSecrets, content \in Contents}
    \cup {[curve |-> "none", key |-> "none", msg |-> "none"]}
ValidateCalls ==
    [fn : {"validate"}, multibase_key : KeyInputs, signature : SignatureInputs,
     content : Contents]
RoundTripCalls == [fn : {"round_trip"}, curve : Curves, d : GeneratedSecrets, content : Contents]
TestCalls == [fn : {"test_validate_p256"}, d : GeneratedSecrets, content : Contents]

VInit ==
    /\ v_pc = "call" /\ v_call \in ValidateCalls \cup RoundTripCalls \cup TestCalls
    /\ v_ret = NoValue
    /\ RIdle /\ AIdle /\ EIdle
VValidate ==
    /\ v_pc = "call" /\ v_call.fn = "validate"
    /\ v_ret' = validate(v_call.multibase_key, v_call.signature, v_call.content)
    /\ v_pc' = "return"
    /\ UNCHANGED <<v_call, NotCall>>
\* gen_key, then jwk_to_did_key on the returned secret, and validate on a
\* signature made with the returned secret.
VRoundTrip ==
    /\ v_pc = "call" /\ v_call.fn = "round_trip"
    /\ LET generated == IF v_call.curve = "P-256" THEN p256_gen_key(v_call.d)
                        ELSE k256_gen_key(v_call.d)
           jwk == jwk_from_str(generated.val.secret)
       IN  v_ret' = [generated |-> generated.val,
                     derived |-> IF jwk.ok THEN jwk_to_did_key(jwk.val) ELSE jwk,
                     validated |->
                        IF jwk.ok
                        THEN validate(generated.val.public,
                                      EcdsaSign(jwk.val.crv, jwk.val.d, v_call.content),
                                      v_call.content)
                        ELSE jwk]
    /\ v_pc' = "return"
    /\ UNCHANGED <<v_call, NotCall>>
VTest ==
    /\ v_pc = "call" /\ v_call.fn = "test_validate_p256"
    /\ v_ret' = test_validate_p256(v_call.d, v_call.content)
    /\ v_pc' = "return"
    /\ UNCHANGED <<v_call, NotCall>>
VNext == VValidate \/ VRoundTrip \/ VTest
SpecValidate == VInit /\ [][VNext]_vars

HInit ==
    /\ v_pc = "call" /\ v_call \in [hostname : HostnameInputs] /\ v_ret = NoValue
    /\ RIdle /\ AIdle /\ EIdle
HCall ==
    /\ v_pc = "call"
    /\ v_ret' = [val |-> is_valid_hostname(v_call.hostname)]
    /\ v_pc' = "return"
    /\ UNCHANGED <<v_call, NotCall>>
SpecHostname == HInit /\ [][HCall]_vars

\* is_valid_handle on one string: a hostname input, bare or behind at:// or @.
HandleCalls ==
    {lead \o hostname : lead \in {<<>>, AtPrefix, <<"@">>}, hostname \in HostnameInputs}
HandleInit ==
    /\ v_pc = "call" /\ v_call \in [handle : HandleCalls] /\ v_ret = NoValue
    /\ RIdle /\ AIdle /\ EIdle
HandleCall ==
    /\ v_pc = "call"
    /\ v_ret' = [val |-> is_valid_handle(v_call.handle)]
    /\ v_pc' = "return"
    /\ UNCHANGED <<v_call, NotCall>>
SpecHandle == HandleInit /\ [][HandleCall]_vars

(***************************************************************************)
(* Install Tandem Key, as the action (actions/prepare.rs) and as the        *)
(* prepare binary (bin/prepare.rs), and Create Account                      *)
(* (actions/create_account.rs), one step at a time.  A network request is   *)
(* logged with the answer it got.                                           *)
(***************************************************************************)
Request(kind, target, body, response) ==
    [kind |-> kind, target |-> target, body |-> body, response |-> response]
Transport == [kind |-> "transport"]
Http(status, body) == [kind |-> "http", status |-> status, body |-> body]
Unseen == [kind |-> "unseen"]
NoBody == [none |-> TRUE]

\* The first lookups of resolve_handle for a subject (resolve.rs:148-193):
\* the directory for a DID, the well-known file and the TXT record for
\* anything else.
FirstLookups(subj) ==
    IF StartsWith(subj, DidPrefix)
    THEN <<Request("plc_query", subj, NoBody, Unseen)>>
    ELSE <<Request("well-known", subj, NoBody, Unseen),
           Request("dns_txt", subj, NoBody, Unseen)>>
\* What resolve_handle may return to its caller.
ResolveResults ==
    {Err("failed to resolve handle"),
     Ok([did |-> DidA, pds |-> Pds1, handles |-> {H1}])}

DidKey(encoded_public_key) == <<"did:key:", encoded_public_key>>
OldKey(d) == DidKey(Multibase(P256Prefix, PublicPoint("P-256", d)))
\* GET https://{plc}/{did}/data
DataFields ==
    [verificationMethods |-> [atproto |-> "did:key:s1"],
     services |-> [atproto_pds |-> Service(PdsType, Pds1)],
     alsoKnownAs |-> <<AtPrefix \o H1>>]
DataDocs ==
    {DataFields}
    \cup {("rotationKeys" :> keys) @@ DataFields :
            keys \in {<<>>, <<OldKey("r1")>>, <<OldKey("r1"), OldKey("r2")>>,
                      <<OldKey("r2"), OldKey("r1")>>}}
StatusCodes == {200, 400}

\* prepare.rs:110-119 and bin/prepare.rs:148-157
\* A key path that appends whatever the position.
key_path_always_last(key_position) == <<"rotationKeys", "-">>
key_path(key_position) ==
    IF key_position = 0 THEN <<"rotationKeys", "0">> ELSE <<"rotationKeys", "-">>
did_doc_data_patch(key_position, encoded_public_key) ==
    << [op |-> "add", path |-> key_path(key_position),
        value |-> DidKey(encoded_public_key)] >>

\* PdsClient::from_credentials, xrpc.rs:71-103
from_credentials(response) ==
    IF response.kind = "transport" THEN Err("failed to authenticate against PDS")
    ELSE IF response.body.kind = "credentials" THEN Ok(response.body.access_jwt)
    ELSE Err("failed to authenticate against PDS")
\* PdsClient::request_plc_op_sig, xrpc.rs:105-118
request_plc_op_sig(response) ==
    IF response.kind = "transport" THEN Err("failed to request PLC signing operation")
    ELSE Ok("unit")
\* PdsClient::sign_plc_op, xrpc.rs:120-144
sign_plc_op(response) ==
    IF response.kind = "transport" THEN Err("failed to request PLC signing operation")
    ELSE IF response.body.kind = "operation" THEN Ok(response.body.operation)
    ELSE Err("failed to request PLC signing operation")
\* PdsClient::submit_plc_op, xrpc.rs:146-162
submit_plc_op(response) ==
    IF response.kind = "transport" THEN Err("failed to submit PLC operation")
    ELSE Ok("unit")
\* did_plc_data, plc.rs:62-80
did_plc_data(response) ==
    IF response.kind = "transport" THEN Err("failed to get DID document")
    ELSE IF response.body.kind = "json" THEN Ok(response.body.value)
    ELSE Err("failed to get DID document")
\* describe_server, xrpc.rs:165-187
describe_server(response) ==
    IF response.kind = "transport" THEN Err("Unable to describe server.")
    ELSE IF response.body.kind = "describe" THEN Ok(response.body)
    ELSE Err("Unable to describe server.")
\* create_account, xrpc.rs:204-247
create_account(response) ==
    IF response.kind = "transport" THEN Err("transport")
    ELSE IF response.body.kind = "account" THEN Ok(response.body)
    ELSE Err("Unexpected response from PDS")

Asked(request) == Append(e_requests, request)
InstallEntries == {"install_key", "prepare_bin"}

\* actions/prepare.rs:40-67: the handle is validated when it is read.
IKInputs ==
    /\ e_entry = "install_key" /\ epc = "inputs"
    /\ \E typed \in HandleInputs, key_type \in {0, 1}, key_position \in {0, 1} :
        LET handle == get_handle_input(typed)
        IN  /\ e_typed' = ("handle" :> typed)
            /\ e_handle' = IF handle.ok THEN handle.val ELSE None
            /\ e_key_type' = IF handle.ok THEN key_type ELSE 0
            /\ e_key_position' = IF handle.ok THEN key_position ELSE 0
            /\ epc' = Try(handle, "resolve")
            /\ eresult' = Returned(handle)
    /\ UNCHANGED <<e_entry, e_resolved, e_key, e_doc, e_patched, e_operation, e_requests>>
    /\ UNCHANGED NotEntry

\* bin/prepare.rs:44-111: the run ends at once when the user does not
\* confirm; the handle is taken as typed; only key type 0 is supported.
PBInputs ==
    /\ e_entry = "prepare_bin" /\ epc = "inputs"
    /\ \E proceed \in BOOLEAN, typed \in HandleInputs, key_type \in {0, 1},
          key_position \in {0, 1} :
        LET supported == IF key_type # 0 THEN Err("Unsupported key type") ELSE Ok("unit")
        IN  IF ~proceed
            THEN /\ eresult' = Ok("unit") /\ epc' = "done"
                 /\ UNCHANGED <<e_typed, e_handle, e_key_type, e_key_position>>
            ELSE /\ e_typed' = ("handle" :> typed)
                 /\ e_handle' = typed
                 /\ e_key_type' = key_type
                 /\ e_key_position' = IF supported.ok THEN key_position ELSE 0
                 /\ epc' = Try(supported, "resolve")
                 /\ eresult' = Returned(supported)
    /\ UNCHANGED <<e_entry, e_resolved, e_key, e_doc, e_patched, e_operation, e_requests>>
    /\ UNCHANGED NotEntry

\* actions/prepare.rs:69-71 and bin/prepare.rs:113-115
EResolve ==
    /\ e_entry \in InstallEntries /\ epc = "resolve"
    /\ \E resolved_handle \in ResolveResults :
        /\ e_resolved' = IF resolved_handle.ok THEN resolved_handle.val ELSE NoValue
        /\ epc' = Try(resolved_handle, "session")
        /\ eresult' = Returned(resolved_handle)
    /\ e_requests' = e_requests \o FirstLookups(e_handle)
    /\ UNCHANGED <<e_entry, e_typed, e_handle, e_key_type, e_key_position, e_key,
                   e_doc, e_patched, e_operation>>
    /\ UNCHANGED NotEntry

\* actions/prepare.rs:83-90 and bin/prepare.rs:127-134
ESession ==
    /\ e_entry \in InstallEntries /\ epc = "session"
    /\ \E response \in {Transport, Http(200, [kind |-> "credentials", access_jwt |-> "jwt"]),
                        Http(400, [kind |-> "other"])} :
        LET pds_client == from_credentials(response)
        IN  /\ e_requests' = Asked(Request("createSession", e_resolved.pds,
                                           [identifier |-> e_resolved.did], response))
            /\ epc' = Try(pds_client, "gen_key")
            /\ eresult' = Returned(pds_client)
    /\ UNCHANGED <<e_entry, e_typed, e_handle, e_key_type, e_key_position, e_resolved,
                   e_key, e_doc, e_patched, e_operation>>
    /\ UNCHANGED NotEntry

\* actions/prepare.rs:92-96 and bin/prepare.rs:136
EGenKey ==
    /\ e_entry \in InstallEntries /\ epc = "gen_key"
    /\ \E d \in GeneratedSecrets :
        LET generated == IF e_entry = "prepare_bin" \/ e_key_type = 0
                         THEN p256_gen_key(d) ELSE k256_gen_key(d)
        IN  /\ e_key' = IF generated.ok THEN generated.val ELSE NoValue
            /\ epc' = Try(generated, "data")
            /\ eresult' = Returned(generated)
    /\ UNCHANGED <<e_entry, e_typed, e_handle, e_key_type, e_key_position, e_resolved,
                   e_doc, e_patched, e_operation, e_requests>>
    /\ UNCHANGED NotEntry

\* actions/prepare.rs:106-108 and bin/prepare.rs:144-146
EData ==
    /\ e_entry \in InstallEntries /\ epc = "data"
    /\ \E response \in {Transport, Http(400, [kind |-> "other"])}
                       \cup {Http(200, [kind |-> "json", value |-> doc]) : doc \in DataDocs} :
        LET did_doc_data == did_plc_data(response)
        IN  /\ e_requests' = Asked(Request("plc_data", e_resolved.did, NoBody, response))
            /\ e_doc' = IF did_doc_data.ok THEN did_doc_data.val ELSE Nothing
            /\ epc' = Try(did_doc_data, "patch")
            /\ eresult' = Returned(did_doc_data)
    /\ UNCHANGED <<e_entry, e_typed, e_handle, e_key_type, e_key_position, e_resolved,
                   e_key, e_patched, e_operation>>
    /\ UNCHANGED NotEntry

\* actions/prepare.rs:110-121 and bin/prepare.rs:148-159
EPatch ==
    /\ e_entry \in InstallEntries /\ epc = "patch"
    /\ LET patched == patch(e_doc, did_doc_data_patch(e_key_position, e_key.public))
           res == IF patched.ok THEN patched ELSE Err("failed to apply patch")
       IN  /\ e_patched' = IF res.ok THEN res.val ELSE Nothing
           /\ epc' = Try(res, "request_sig")
           /\ eresult' = Returned(res)
    /\ UNCHANGED <<e_entry, e_typed, e_handle, e_key_type, e_key_position, e_resolved,
                   e_key, e_doc, e_operation, e_requests>>
    /\ UNCHANGED NotEntry

\* actions/prepare.rs:132-135 and bin/prepare.rs:170-173
ERequestSig ==
    /\ e_entry \in InstallEntries /\ epc = "request_sig"
    /\ \E response \in {Transport} \cup {Http(st, [kind |-> "other"]) : st \in StatusCodes} :
        LET res == request_plc_op_sig(response)
        IN  /\ e_requests' = Asked(Request("requestPlcOperationSignature", e_resolved.pds,
                                           NoBody, response))
            /\ epc' = Try(res, "sign")
            /\ eresult' = Returned(res)
    /\ UNCHANGED <<e_entry, e_typed, e_handle, e_key_type, e_key_position, e_resolved,
                   e_key, e_doc, e_patched, e_operation>>
    /\ UNCHANGED NotEntry

\* actions/prepare.rs:144-152 and bin/prepare.rs:182-190: the confirmation
\* code is read and sent with the document; the PDS answers with the signed
\* operation, or with something else.
ESign ==
    /\ e_entry \in InstallEntries /\ epc = "sign"
    /\ \E response \in {Transport, Http(400, [kind |-> "other"])}
              \cup {Http(st, [kind |-> "operation",
                              operation |-> [signed_by |-> "pds", data |-> e_patched]]) :
                       st \in StatusCodes} :
        LET plc_operation == sign_plc_op(response)
        IN  /\ e_requests' = Asked(Request("signPlcOperation", e_resolved.pds,
                                           [doc |-> e_patched, token |-> "code"], response))
            /\ e_operation' = IF plc_operation.ok THEN plc_operation.val ELSE NoValue
            /\ epc' = Try(plc_operation, "submit")
            /\ eresult' = Returned(plc_operation)
    /\ UNCHANGED <<e_entry, e_typed, e_handle, e_key_type, e_key_position, e_resolved,
                   e_key, e_doc, e_patched>>
    /\ UNCHANGED NotEntry

\* actions/prepare.rs:166-178 and bin/prepare.rs:201-208
ESubmitOp ==
    /\ e_entry \in InstallEntries /\ epc = "submit"
    /\ \E response \in {Transport} \cup {Http(st, [kind |-> "other"]) : st \in StatusCodes} :
        LET res == submit_plc_op(response)
        IN  /\ e_requests' = Asked(Request("submitPlcOperation", e_resolved.pds,
                                           [operation |-> e_operation], response))
            /\ eresult' = res
    /\ epc' = "done"
    /\ UNCHANGED <<e_entry, e_typed, e_handle, e_key_type, e_key_position, e_resolved,
                   e_key, e_doc, e_patched, e_operation>>
    /\ UNCHANGED NotEntry

\* create_account.rs:34-37
CAHost ==
    /\ e_entry = "create_account" /\ epc = "inputs"
    /\ \E typed \in HandleInputs :
        LET pds_hostname == get_handle_input(typed)
        IN  /\ e_typed' = ("pds_hostname" :> typed)
            /\ e_handle' = IF pds_hostname.ok THEN pds_hostname.val ELSE None
            /\ epc' = Try(pds_hostname, "describe")
            /\ eresult' = Returned(pds_hostname)
    /\ UNCHANGED <<e_entry, e_key_type, e_key_position, e_resolved, e_key, e_doc,
                   e_patched, e_operation, e_requests>>
    /\ UNCHANGED NotEntry

\* create_account.rs:39-56
CADescribe ==
    /\ e_entry = "create_account" /\ epc = "describe"
    /\ \E response \in {Transport, Http(400, [kind |-> "other"])}
              \cup {Http(200, [kind |-> "describe", invite_code_required |-> FALSE,
                               available_user_domains |-> domains]) :
                       domains \in {<<>>, <<<<".", "t">>>>}} :
        LET described == describe_server(response)
        IN  /\ e_requests' = Asked(Request("describeServer", e_handle, NoBody, response))
            /\ IF described.ok /\ described.val.available_user_domains = <<>>
               THEN epc' = "done" /\ eresult' = Ok("unit")
               ELSE epc' = Try(described, "form") /\ eresult' = Returned(described)
    /\ UNCHANGED <<e_entry, e_typed, e_handle, e_key_type, e_key_position, e_resolved,
                   e_key, e_doc, e_patched, e_operation>>
    /\ UNCHANGED NotEntry

\* create_account.rs:79-141: the handle and the existing DID are taken as
\* typed; the recovery key is derived from a typed JWK or generated.
CAForm ==
    /\ e_entry = "create_account" /\ epc = "form"
    /\ \E handle \in HandleInputs, existing_did \in {None} \cup DidInputs,
          key_type \in {0, 1, 2}, jwk_typed \in JwkInputs, d \in GeneratedSecrets :
        LET jwk == get_jwk_input(jwk_typed)
            recovery_key ==
                CASE key_type = 0 ->
                        IF jwk.ok THEN jwk_to_did_key(jwk.val) ELSE jwk
                  [] key_type = 1 ->
                        Ok(p256_gen_key(d).val.public)
                  [] OTHER -> Ok(k256_gen_key(d).val.public)
        IN  /\ e_typed' = ("handle" :> handle) @@ ("did" :> existing_did) @@ e_typed
            /\ e_key_type' = key_type
            /\ e_key' = IF recovery_key.ok THEN [public |-> recovery_key.val] ELSE NoValue
            /\ epc' = Try(recovery_key, "create")
            /\ eresult' = Returned(recovery_key)
    /\ UNCHANGED <<e_entry, e_handle, e_key_position, e_resolved, e_doc, e_patched,
                   e_operation, e_requests>>
    /\ UNCHANGED NotEntry

\* create_account.rs:143-162
CACreate ==
    /\ e_entry = "create_account" /\ epc = "create"
    /\ \E response \in {Transport, Http(400, [kind |-> "other"]),
                        Http(200, [kind |-> "account", did |-> DidA])} :
        LET created == create_account(response)
        IN  /\ e_requests' = Asked(Request("createAccount", e_handle,
                                           [handle |-> e_typed["handle"],
                                            did |-> e_typed["did"],
                                            recovery_key |-> DidKey(e_key.public)],
                                           response))
            /\ eresult' = IF created.ok THEN Ok("unit") ELSE created
    /\ epc' = "done"
    /\ UNCHANGED <<e_entry, e_typed, e_handle, e_key_type, e_key_position, e_resolved,
                   e_key, e_doc, e_patched, e_operation>>
    /\ UNCHANGED NotEntry

\* One run of one of the three entry points.
EInit ==
    /\ e_entry \in InstallEntries \cup {"create_account"}
    /\ epc = "inputs" /\ ELocals
    /\ RIdle /\ AIdle /\ PIdle
ENext ==
    \/ IKInputs \/ PBInputs \/ EResolve \/ ESession \/ EGenKey \/ EData \/ EPatch
    \/ ERequestSig \/ ESign \/ ESubmitOp
    \/ CAHost \/ CADescribe \/ CAForm \/ CACreate
SpecEntry == EInit /\ [][ENext]_vars

(***************************************************************************)
(* The tandem binary (bin/tandem.rs): the menu, get_action, and the run of  *)
(* the action it returned.                                                  *)
(***************************************************************************)
MaxSelected == 5

\* bin/tandem.rs:88
supported_operations == <<"Install Tandem Key", "Append Handle">>

\* get_action, actions/factory.rs:13-28: the action constructed.
get_action(selected_operation) ==
    CASE selected_operation = 0 -> Ok("install_key")
      [] selected_operation = 1 -> Ok("create_account")
      [] selected_operation = 2 -> Ok("migrate")
      [] selected_operation = 3 -> Ok("append_handle")
      [] OTHER -> Err("Unsupported operation")

\* bin/tandem.rs:88-98: Select returns the index of the chosen label, and
\* the action get_action returns for that index runs.
TSelect ==
    /\ e_entry = "none" /\ epc = "menu"
    /\ \E i \in 1..Len(supported_operations) :
        LET selected_operation == i - 1
            action == get_action(selected_operation)
        IN  /\ v_call' = [selected_operation |-> selected_operation,
                          label |-> supported_operations[i]]
            /\ v_ret' = action
            /\ v_pc' = "return"
            /\ e_entry' = IF action.ok THEN action.val ELSE "none"
            /\ epc' = Try(action, "inputs")
            /\ eresult' = Returned(action)
    /\ UNCHANGED <<e_typed, e_handle, e_key_type, e_key_position, e_resolved, e_key,
                   e_doc, e_patched, e_operation, e_requests>>
    /\ UNCHANGED <<rvars, avars>>

\* get_action on any index.
TGetAction ==
    /\ v_pc = "call"
    /\ v_ret' = get_action(v_call.selected_operation)
    /\ v_pc' = "return"
    /\ UNCHANGED <<v_call, NotCall>>

TInit ==
    /\ \/ /\ v_pc = "call" /\ v_call \in [selected_operation : 0..MaxSelected]
          /\ v_ret = NoValue /\ EIdle
       \/ /\ PIdle
          /\ e_entry = "none" /\ epc = "menu" /\ ELocals
    /\ RIdle /\ AIdle
TNext ==
    \/ TSelect \/ TGetAction
    \/ IKInputs \/ EResolve \/ ESession \/ EGenKey \/ EData \/ EPatch
    \/ ERequestSig \/ ESign \/ ESubmitOp
    \/ CAHost \/ CADescribe \/ CAForm \/ CACreate
SpecTandem == TInit /\ [][TNext]_vars

(***************************************************************************)
(* What the sources said, read from the answer logs (not from the sets the  *)
(* resolver keeps).                                                        *)
(***************************************************************************)
AskedDids == DOMAIN plcQ
AskedHandles == DOMAIN httpQ \cup DOMAIN dnsQ

\* The DID the HTTPS body names, if the body is a DID.
HttpNamed(h) ==
    IF Answer(httpAns, h).status = "ok" /\ Answer(httpAns, h).body[1] = "did:"
    THEN {Answer(httpAns, h).body} ELSE {}
\* Every did= value of the TXT records of a handle.
DnsValues(h) ==
    IF Answer(dnsAns, h).status = "ok"
    THEN {Tail(r) : r \in {x \in Answer(dnsAns, h).records : x[1] = "did="}}
    ELSE {}
DnsAmbiguous(h) == Cardinality(DnsValues(h)) > 1
\* The DID the DNS lookup names: its single did= value.
DnsNamed(h) == IF Cardinality(DnsValues(h)) = 1 THEN DnsValues(h) ELSE {}

ReportedDids == UNION {HttpNamed(h) \cup DnsNamed(h) : h \in AskedHandles}
\* The handles a directory document lists, without their at:// prefix.
ListedHandles(d) ==
    IF Answer(plcAns, d).status = "ok"
    THEN {IF e[1] = "at://" THEN Tail(e) ELSE e :
            e \in SeqToSet(plcAns[d].also_known_as)}
    ELSE {}
\* The endpoints of the PDS services a directory document lists.
ListedPds(d) ==
    IF Answer(plcAns, d).status = "ok"
    THEN {v.service_endpoint :
            v \in {x \in SeqToSet(plcAns[d].service) : x.service_type = PdsType}}
    ELSE {}
ReportedHandles == UNION {ListedHandles(d) : d \in AskedDids}
ReportedPds == UNION {ListedPds(d) : d \in AskedDids}

RDone == rpc = "done"
DepthError == Err("resolve_handle exceeded max iteration depth")
FrontierEmpty ==
    /\ unresolved_dids \ resolved_dids = {}
    /\ unresolved_handles \ resolved_handles = {}

C2_DnsAmbiguityIsFatal ==
    (RDone /\ \E h \in AskedHandles : Count(dnsQ, h) > 0 /\ DnsAmbiguous(h))
        => ~rresult.ok

(***************************************************************************)
(* C3: resolve_handle fails with the depth-exceeded error if and only if    *)
(* some DID or handle is still unresolved after 10 passes have each         *)
(* executed their query steps.                                             *)
(***************************************************************************)
C3_DepthErrorIffUnresolved ==
    RDone => ((rresult = DepthError)
                <=> (queryPasses = MaxIterations /\ ~FrontierEmpty))

(***************************************************************************)
(* C4: for a subject (the handle or the DID) whose handle proofs name the   *)
(* DID and whose directory document lists exactly that handle and one PDS   *)
(* endpoint, resolve_handle returns, within the bound, that DID, that PDS   *)
(* and that handle (without the at:// prefix).                              *)
(***************************************************************************)
Mutual(h, d, p) ==
    /\ subject \in {h, d}
    /\ Count(plcQ, d) > 0 /\ Count(httpQ, h) > 0 /\ Count(dnsQ, h) > 0
    /\ HttpNamed(h) \cup DnsValues(h) = {d}
    /\ Answer(httpAns, h).status = "ok" => HttpNamed(h) = {d}
    /\ ListedHandles(d) = {h}
    /\ ListedPds(d) = {p}

C4_MutualResolves ==
    \A h \in HandleStrs, d \in DidStrs, p \in {Pds1, Pds2} :
        (RDone /\ Mutual(h, d, p)) =>
            /\ rresult = Ok([did |-> d, pds |-> p, handles |-> {h}])
            /\ iterations <= MaxIterations

\* The scenario with the handle as subject, and the list entry prefixed.
C4_Witness ==
    /\ RDone /\ subject = H1 /\ Mutual(H1, DidA, Pds1)
    /\ plcAns[DidA].also_known_as = <<AtPrefix \o H1>>
    /\ rresult.ok

(***************************************************************************)
(* C5: a failed directory query or a failed HTTPS or DNS lookup does not    *)
(* end resolve_handle: the function returns only when nothing is left to    *)
(* resolve or the bound is hit; an element that was queried is marked       *)
(* resolved and is queried once; a failed source adds nothing to the found  *)
(* sets, and a DID named by one working source of a handle is found.        *)
(***************************************************************************)
C5_FailuresAreSoft ==
    /\ \A d \in DidStrs : Count(plcQ, d) <= 1 /\ (Count(plcQ, d) > 0 => d \in resolved_dids)
    /\ \A h \in HandleStrs :
          /\ Count(httpQ, h) <= 1 /\ Count(dnsQ, h) <= 1
          /\ (Count(httpQ, h) > 0 => h \in resolved_handles)
    /\ found_dids = ReportedDids
    /\ found_handles = ReportedHandles
    /\ found_pds = ReportedPds
    /\ RDone => (FrontierEmpty \/ rresult = DepthError)

\* A success whose DID comes from a handle with a failed HTTPS lookup.
C5_Witness ==
    /\ RDone /\ rresult.ok
    /\ \E h \in AskedHandles :
          /\ Answer(httpAns, h) = Failed
          /\ DnsNamed(h) = {rresult.val.did}

(***************************************************************************)
(* What the Append Handle runs and the directory did, read from the logs.   *)
(***************************************************************************)
\* The place, in a listing, of the entry with the greatest createdAt; of
\* several entries with the greatest createdAt, the one listed last.
IsLatest(entries, i) ==
    /\ \A j \in 1..Len(entries) : entries[j].created_at <= entries[i].created_at
    /\ \A j \in (i + 1)..Len(entries) : entries[j].created_at < entries[i].created_at
LatestEntry(entries) == entries[CHOOSE i \in 1..Len(entries) : IsLatest(entries, i)]

NoOperations == Err("no operations found")
Listed(r) == a_fetched[r].kind = "json"
Fetched(r) == a_fetched[r].kind # "none"
Posted(r) == a_posts[r] # <<>>
Answered(r) == a_response[r].kind = "http"
Failure(r) == ~aresult[r].ok /\ aresult[r] # Pending
Accepted(r) == dir_verdict[r] = "accepted"
Rejected(r) == dir_verdict[r] = "rejected"
TimesRun(r, step) == Cardinality({i \in 1..Len(a_steps[r]) : a_steps[r][i] = step})
StepOrder == <<"get_did_plc_input", "get_jwk_input", "get_handle_input",
               "jwk_to_did_key", "did_plc_last_operation", "patch",
               "sign_operation", "submit_operation">>
IsPrefix(s, t) == Len(s) <= Len(t) /\ s = SubSeq(t, 1, Len(s))
\* The operations the directory accepted from the runs.
Appended == {i \in 1..Len(dir_log) : dir_log[i].created_at > MaxTime}

(***************************************************************************)
(* C6: did_plc_last_operation returns the cid and operation of the listed   *)
(* entry with the greatest createdAt, whatever the order of the listing     *)
(* (of several entries with the greatest createdAt, the one listed last),   *)
(* and fails with the no-operations error exactly when the listing is       *)
(* empty.                                                                  *)
(***************************************************************************)
C6_LastOperationIsLatest ==
    \A r \in Runs :
        /\ (Listed(r) /\ a_fetched[r].entries # <<>>) =>
              /\ aresult[r] = Pending /\ apc[r] = "patch"
              /\ a_last_commit[r] = LatestEntry(a_fetched[r].entries).cid
              /\ a_last_operation[r] = LatestEntry(a_fetched[r].entries).operation
        /\ (aresult[r] = NoOperations) <=> (Listed(r) /\ a_fetched[r].entries = <<>>)

\* A listing of three whose two greatest entries tie and are listed before
\* the smallest one: the second listed is returned.
C6_Witness ==
    /\ Listed(1) /\ Len(a_fetched[1].entries) = 3
    /\ a_fetched[1].entries[1].created_at = 2
    /\ a_fetched[1].entries[2].created_at = 2
    /\ a_fetched[1].entries[3].created_at = 1
    /\ a_last_commit[1] = a_fetched[1].entries[2].cid
    /\ a_last_commit[1] # Cid(3)

(***************************************************************************)
(* C7: in every Append Handle run that reaches signing, the prev of the     *)
(* operation that is signed and submitted is the cid of the entry with the  *)
(* greatest createdAt of the audit log fetched in that run.                 *)
(***************************************************************************)
C7_PrevIsFetchedTip ==
    \A r \in Runs :
        ("sign_operation" \in SeqToSet(a_steps[r])) =>
            /\ Listed(r) /\ a_fetched[r].entries # <<>>
            /\ a_operation[r].prev = LatestEntry(a_fetched[r].entries).cid
            /\ a_signed[r] # Nothing => a_signed[r].prev = a_operation[r].prev
            /\ \A i \in 1..Len(a_posts[r]) : a_posts[r][i].prev = a_operation[r].prev

\* A run that submitted after fetching a log whose latest entry is not the
\* one listed last.
C7_Witness ==
    \E r \in Runs :
        /\ Posted(r) /\ Len(a_fetched[r].entries) = 2
        /\ a_fetched[r].entries[1].created_at > a_fetched[r].entries[2].created_at
        /\ a_posts[r][1].prev = a_fetched[r].entries[1].cid

(***************************************************************************)
(* C8: of two Append Handle runs that fetched the same chain tip of the     *)
(* same DID and both submitted, at most one is accepted by the directory;   *)
(* the other one is rejected, ends with an error, and has fetched once and  *)
(* POSTed once; every operation the directory accepted has the cid of its   *)
(* predecessor in the log as its prev.                                     *)
(***************************************************************************)
C8_OptimisticConcurrency ==
    /\ \A r1, r2 \in Runs :
          (/\ r1 # r2 /\ Posted(r1) /\ Posted(r2)
           /\ a_did[r1] = a_did[r2]
           /\ a_fetched[r1] = a_fetched[r2]) =>
              /\ ~(Accepted(r1) /\ Accepted(r2))
              /\ (Accepted(r1) /\ dir_verdict[r2] # "undelivered") =>
                    /\ Rejected(r2) /\ Failure(r2) /\ apc[r2] = "done"
                    /\ Answered(r2) => aresult[r2] = Err(<<"response", a_response[r2].status>>)
                    /\ TimesRun(r2, "did_plc_last_operation") = 1
                    /\ TimesRun(r2, "submit_operation") = 1
                    /\ Len(a_posts[r2]) = 1
    /\ \A i \in Appended :
          /\ i > 1
          /\ dir_log[i].operation.prev = dir_log[i - 1].cid
          /\ dir_log[i].cid \notin {dir_log[j].cid : j \in 1..(i - 1)}

\* Both runs fetched the same log, the first was accepted, the second was
\* answered with a rejection.
C8_Witness ==
    /\ a_fetched[1] = a_fetched[2] /\ Listed(1)
    /\ Accepted(1) /\ Rejected(2) /\ Answered(2)
    /\ a_new_handle[1] # a_new_handle[2]
    /\ Failure(2)

(***************************************************************************)
(* C9: the steps of an Append Handle run are, in this order, the input      *)
(* validations, the did:key derivation (before any network call), the       *)
(* audit-log fetch, the patch, the signature and the POST; a step that      *)
(* fails ends the run with its error and no further step; the directory     *)
(* gets at most one POST of a run, and its body is the signed operation.    *)
(***************************************************************************)
C9_StepOrder ==
    \A r \in Runs :
        /\ IsPrefix(a_steps[r], StepOrder)
        /\ aresult[r] # Pending => apc[r] = "done"
        /\ Fetched(r) => (a_did_key[r] # Nothing /\ TimesRun(r, "jwk_to_did_key") = 1)
        /\ Len(a_posts[r]) <= 1
        /\ Len(a_posts[r]) = TimesRun(r, "submit_operation")
        /\ dir_verdict[r] # "none" => Posted(r)
        /\ Posted(r) =>
              /\ a_steps[r] = StepOrder
              /\ a_posts[r][1] = a_signed[r]
              /\ "sig" \in DOMAIN a_posts[r][1]
              /\ a_posts[r][1].sig =
                    B64Url(EcdsaSign(a_jwk[r].crv, a_jwk[r].d, DagCbor(a_operation[r])))
              /\ Without(a_posts[r][1], "sig") = a_operation[r]

\* One run went through to its POST; the other one failed in the fetch and
\* stopped there.
C9_Witness ==
    \E r1, r2 \in Runs :
        /\ Posted(r1) /\ aresult[r1].ok
        /\ Failure(r2) /\ a_steps[r2] = SubSeq(StepOrder, 1, 5) /\ ~Posted(r2)
        /\ apc[r2] = "done"

(***************************************************************************)
(* C10: a submission succeeds exactly when the directory answered the POST  *)
(* with a 2xx status; another status gives an error that carries the        *)
(* status, a transport failure gives an error; the run's result is that     *)
(* result, so no run succeeds whose submission was rejected.                *)
(***************************************************************************)
C10_SuccessIff2xx ==
    \A r \in Runs :
        /\ aresult[r].ok <=>
              (Answered(r) /\ 200 <= a_response[r].status /\ a_response[r].status <= 299)
        /\ (Answered(r) /\ ~(a_response[r].status \in 200..299)) =>
              aresult[r] = Err(<<"response", a_response[r].status>>)
        /\ a_response[r].kind = "transport" =>
              aresult[r] = Err("unable to submit operation")
        /\ Rejected(r) => Failure(r)

\* One run was answered 204 and succeeded, the other was answered 409 and
\* failed with that status.
C10_Witness ==
    \E r1, r2 \in Runs :
        /\ Answered(r1) /\ a_response[r1].status = 204 /\ aresult[r1] = Ok("unit")
        /\ Answered(r2) /\ a_response[r2].status = 409
        /\ aresult[r2] = Err(<<"response", 409>>)

(***************************************************************************)
(* C11: when the tip operation has no sig member, or no prev, or no         *)
(* alsoKnownAs, the directives of Append Handle fail with a patch error:    *)
(* the run ends with that error, signs nothing and submits nothing.         *)
(***************************************************************************)
PatchedMembers == {"alsoKnownAs", "sig", "prev"}
Patching(r) == "patch" \in SeqToSet(a_steps[r])
C11_PatchFailsOnMissingMember ==
    \A r \in Runs :
        (Patching(r) /\ ~(PatchedMembers \subseteq DOMAIN a_last_operation[r])) =>
            /\ aresult[r] = Err("invalid pointer")
            /\ apc[r] = "done"
            /\ a_steps[r] = SubSeq(StepOrder, 1, 6)
            /\ a_operation[r] = Nothing /\ a_signed[r] = Nothing
            /\ ~Posted(r) /\ dir_verdict[r] = "none"

\* A run whose tip has prev and alsoKnownAs but no sig, and that stopped in
\* the patch.
C11_Witness ==
    \E r \in Runs :
        /\ Patching(r)
        /\ DOMAIN a_last_operation[r] \cap PatchedMembers = {"alsoKnownAs", "prev"}
        /\ Failure(r) /\ ~Posted(r)

(***************************************************************************)
(* C12: what is signed is the canonical encoding of the operation's         *)
(* members without a sig member: in Append Handle the tip's sig is removed  *)
(* before signing, sign_operation signs the operation it is given, and the  *)
(* signed operation it returns is that operation plus the sig member, which *)
(* holds the new signature; the encoding depends on the members only.       *)
(***************************************************************************)
Signed(r) == a_signed[r] # Nothing
SignedBytes(r) == a_signed[r].sig.b64url.msg
EncodedKeys(bytes) == [i \in 1..Len(bytes) |-> bytes[i][1]]
C12_SignedBytesHaveNoSig ==
    \A r \in Runs :
        Signed(r) =>
            /\ "sig" \in DOMAIN a_last_operation[r]
            /\ "sig" \notin DOMAIN a_operation[r]
            /\ SignedBytes(r) = DagCbor(a_operation[r])
            /\ "sig" \notin SeqToSet(EncodedKeys(SignedBytes(r)))
            /\ SeqToSet(EncodedKeys(SignedBytes(r))) = DOMAIN a_operation[r]
            /\ Len(SignedBytes(r)) = Cardinality(DOMAIN a_operation[r])
            /\ \A i \in 1..Len(SignedBytes(r)) :
                  SignedBytes(r)[i][2] = a_operation[r][SignedBytes(r)[i][1]]
            /\ a_signed[r].sig.b64url.key = a_jwk[r].d
            /\ a_signed[r].sig.b64url.curve = a_jwk[r].crv
            /\ DOMAIN a_signed[r] = DOMAIN a_operation[r] \cup {"sig"}
            /\ \A k \in DOMAIN a_operation[r] : a_signed[r][k] = a_operation[r][k]
            /\ a_signed[r].sig # a_last_operation[r].sig
            /\ DagCbor(Without(a_signed[r], "sig")) = SignedBytes(r)

\* A run that signed an operation made from a tip that had a sig.
C12_Witness ==
    \E r \in Runs :
        /\ Signed(r) /\ "sig" \in DOMAIN a_last_operation[r]
        /\ a_signed[r].sig # a_last_operation[r].sig
        /\ Len(SignedBytes(r)) = 6

(***************************************************************************)
(* C13: is_valid_hostname rejects a string exactly when it is empty, or is  *)
(* longer than 253 bytes, or ends in .local, .localhost, .internal or       *)
(* .arpa, or holds a byte outside [A-Za-z0-9.-], or has a label between     *)
(* dots that is empty, longer than 63 bytes, or starts or ends with '-';    *)
(* every other string is accepted.                                          *)
(***************************************************************************)
Returned13 == v_pc = "return"
AllowedBytes ==
    {"a", "b", "c", "d", "e", "f", "g", "h", "i", "j", "k", "l", "m", "n", "o", "p",
     "q", "r", "s", "t", "u", "v", "w", "x", "y", "z",
     "A", "B", "C", "D", "E", "F", "G", "H", "I", "J", "K", "L", "M", "N", "O", "P",
     "Q", "R", "S", "T", "U", "V", "W", "X", "Y", "Z",
     "0", "1", "2", "3", "4", "5", "6", "7", "8", "9", ".", "-"}
ReservedSuffixes ==
    { <<".", "l", "o", "c", "a", "l">>,
      <<".", "l", "o", "c", "a", "l", "h", "o", "s", "t">>,
      <<".", "i", "n", "t", "e", "r", "n", "a", "l">>,
      <<".", "a", "r", "p", "a">> }
EndsInReserved(s) ==
    \E suf \in ReservedSuffixes :
        Len(s) >= Len(suf) /\ \A i \in 1..Len(suf) : s[Len(s) - Len(suf) + i] = suf[i]
\* The labels by position: a label starts at 1 or behind a dot and ends at
\* the end or before a dot.
LabelStart(s, i) == i = 1 \/ s[i - 1] = "."
LabelEnd(s, i) == i = Len(s) \/ s[i + 1] = "."
HasEmptyLabel(s) ==
    \/ s = <<>> \/ s[1] = "." \/ s[Len(s)] = "."
    \/ \E i \in 1..(Len(s) - 1) : s[i] = "." /\ s[i + 1] = "."
HasLongLabel(s) ==
    \E i \in 1..Len(s) : i + 63 <= Len(s) /\ \A j \in i..(i + 63) : s[j] # "."
HasHyphenEdge(s) ==
    \E i \in 1..Len(s) : s[i] = "-" /\ (LabelStart(s, i) \/ LabelEnd(s, i))
HostnameRejected(s) ==
    \/ s = <<>>
    \/ Len(s) > 253
    \/ EndsInReserved(s)
    \/ \E i \in 1..Len(s) : s[i] \notin AllowedBytes
    \/ HasEmptyLabel(s) \/ HasLongLabel(s) \/ HasHyphenEdge(s)
C13_HostnameRule ==
    Returned13 => (v_ret.val <=> ~HostnameRejected(v_call.hostname))

\* A name of exactly 253 bytes in labels of at most 63 bytes is accepted.
C13_Witness ==
    /\ Returned13 /\ Len(v_call.hostname) = 253 /\ v_ret.val = TRUE

(***************************************************************************)
(* C14: in Install Tandem Key (the action and the prepare binary) and in    *)
(* Create Account, a handle that handle validation rejects, or a DID that   *)
(* DID validation rejects, ends the run with the invalid-input error and    *)
(* no network request is issued for it: none at all where the handle is     *)
(* the first thing asked, no createAccount request in Create Account.       *)
(***************************************************************************)
Typed(prompt) == prompt \in DOMAIN e_typed
BadHandle(prompt) == Typed(prompt) /\ is_valid_handle(e_typed[prompt]) = None
BadDid(prompt) ==
    Typed(prompt) /\ e_typed[prompt] # None /\ is_valid_did_plc(e_typed[prompt]) = None
RequestKinds == {e_requests[i].kind : i \in 1..Len(e_requests)}
C14_InvalidInputStopsBeforeNetwork ==
    /\ (e_entry \in InstallEntries /\ BadHandle("handle")) =>
          (epc = "done" /\ eresult = Err("invalid handle") /\ e_requests = <<>>)
    /\ (e_entry = "create_account" /\ BadHandle("pds_hostname")) =>
          (epc = "done" /\ eresult = Err("invalid handle") /\ e_requests = <<>>)
    /\ (e_entry = "create_account" /\ BadHandle("handle")) =>
          (epc = "done" /\ eresult = Err("invalid handle")
           /\ "createAccount" \notin RequestKinds)
    /\ (e_entry = "create_account" /\ BadDid("did")) =>
          (epc = "done" /\ eresult = Err("invalid DID-PLC")
           /\ "createAccount" \notin RequestKinds)

(***************************************************************************)
(* C15: for every key pair gen_key returns, of either curve, jwk_to_did_key *)
(* on the returned secret gives the encoded public key gen_key returned,    *)
(* and a signature made with the returned secret over a payload passes      *)
(* validate against that encoded public key; the test of it, which parses   *)
(* the secret string p256::gen_key returned, succeeds.                      *)
(***************************************************************************)
Called(fn) == v_pc = "return" /\ v_call.fn = fn
C15_KeyRoundTrip ==
    /\ Called("round_trip") =>
          /\ v_ret.derived = Ok(v_ret.generated.public)
          /\ v_ret.validated = Ok("unit")
    /\ Called("test_validate_p256") => v_ret = Ok("unit")

(***************************************************************************)
(* C16: validate chooses the curve by the two leading bytes of the decoded  *)
(* key (0x80 0x24: P-256, 0xe7 0x01: secp256k1); a signature made with a    *)
(* secret of one curve never passes validate against a key whose leading    *)
(* bytes name the other curve.                                              *)
(***************************************************************************)
OtherCurve(curve) == IF curve = "P-256" THEN "secp256k1" ELSE "P-256"
C16_CurveDiscrimination ==
    Called("validate") =>
        /\ \A curve \in Curves :
              (/\ v_call.multibase_key.prefix = PrefixOf(curve)
               /\ v_call.signature.curve = OtherCurve(curve)) => ~v_ret.ok
        /\ v_ret.ok =>
              \E curve \in Curves :
                  /\ v_call.multibase_key.prefix = PrefixOf(curve)
                  /\ v_call.multibase_key.point.curve = curve
                  /\ v_call.signature =
                        EcdsaSign(curve, v_call.multibase_key.point.of, v_call.content)

\* A secp256k1 signature against a key with the P-256 bytes in front of the
\* secp256k1 point of the signing secret: an error.
C16_Witness ==
    /\ Called("validate")
    /\ v_call.multibase_key.base = "base58btc"
    /\ v_call.multibase_key.prefix = P256Prefix
    /\ v_call.multibase_key.point = PublicPoint("secp256k1", "g1")
    /\ v_call.signature = EcdsaSign("secp256k1", "g1", v_call.content)
    /\ ~v_ret.ok /\ v_ret # Panic

(***************************************************************************)
(* C17: validate returns an error, and neither succeeds nor aborts the      *)
(* process, for every key that is not valid multibase or whose decoded      *)
(* bytes do not begin with one of the two curve prefixes, decoded keys of   *)
(* fewer than two bytes included.                                           *)
(***************************************************************************)
UnsupportedKey(key) ==
    \/ key.base # "base58btc"
    \/ key.prefix \notin {P256Prefix, K256Prefix}
C17_BadKeyIsAnError ==
    (Called("validate") /\ UnsupportedKey(v_call.multibase_key)) =>
        (~v_ret.ok /\ v_ret # Panic)

(***************************************************************************)
(* C18: installing a rotation key.  With position first the new             *)
(* rotationKeys list is the new key followed by the previous keys, with     *)
(* position last the previous keys followed by the new key; the new entry   *)
(* is did:key: and the encoded public key of the key just generated; the    *)
(* previous keys keep their order and every other field of the document is  *)
(* unchanged; when the patch cannot be applied no signature request is      *)
(* sent to the PDS.                                                         *)
(***************************************************************************)
Installing == e_entry \in InstallEntries
PatchApplied == Installing /\ e_patched # Nothing
PatchFailed == Installing /\ e_doc # Nothing /\ epc # "patch" /\ e_patched = Nothing
NewKey == <<"did:key:", e_key.public>>
C18_RotationKeyInstalled ==
    /\ PatchApplied =>
          /\ "rotationKeys" \in DOMAIN e_doc
          /\ DOMAIN e_patched = DOMAIN e_doc
          /\ e_patched.rotationKeys =
                IF e_key_position = 0 THEN <<NewKey>> \o e_doc.rotationKeys
                ELSE e_doc.rotationKeys \o <<NewKey>>
          /\ \A field \in DOMAIN e_doc \ {"rotationKeys"} : e_patched[field] = e_doc[field]
    /\ PatchFailed =>
          /\ epc = "done" /\ eresult = Err("failed to apply patch")
          /\ "requestPlcOperationSignature" \notin RequestKinds
    /\ (Installing /\ "requestPlcOperationSignature" \in RequestKinds) => PatchApplied

\* Position first on a document of two keys, and the signature request sent.
C18_Witness ==
    /\ PatchApplied /\ e_key_position = 0
    /\ e_doc.rotationKeys = <<OldKey("r2"), OldKey("r1")>>
    /\ e_patched.rotationKeys = <<NewKey, OldKey("r2"), OldKey("r1")>>
    /\ "requestPlcOperationSignature" \in RequestKinds

(***************************************************************************)
(* C19: the operation Append Handle builds differs from the tip operation   *)
(* only in alsoKnownAs, prev and sig: alsoKnownAs is the tip's list with    *)
(* at:// and the new handle appended as the last element, the entries       *)
(* before it and their order kept, and every other member (type, rotation   *)
(* keys, verification methods, services) is the tip's; the same holds of    *)
(* the operation signed and of every operation submitted.                   *)
(***************************************************************************)
Built(r) == a_operation[r] # Nothing
Changed == {"alsoKnownAs", "prev", "sig"}
SameButChanged(operation, tip) ==
    /\ DOMAIN operation \ {"sig"} = DOMAIN tip \ {"sig"}
    /\ \A member \in DOMAIN tip \ Changed : operation[member] = tip[member]
HandleAppended(operation, tip, new_handle) ==
    /\ Len(operation.alsoKnownAs) = Len(tip.alsoKnownAs) + 1
    /\ \A i \in 1..Len(tip.alsoKnownAs) : operation.alsoKnownAs[i] = tip.alsoKnownAs[i]
    /\ operation.alsoKnownAs[Len(operation.alsoKnownAs)] = <<"at://">> \o new_handle
C19_OnlyHandlePrevSigDiffer ==
    \A r \in Runs :
        Built(r) =>
            /\ SameButChanged(a_operation[r], a_last_operation[r])
            /\ HandleAppended(a_operation[r], a_last_operation[r], a_new_handle[r])
            /\ Signed(r) =>
                  /\ SameButChanged(a_signed[r], a_last_operation[r])
                  /\ HandleAppended(a_signed[r], a_last_operation[r], a_new_handle[r])
            /\ \A i \in 1..Len(a_posts[r]) :
                  /\ SameButChanged(a_posts[r][i], a_last_operation[r])
                  /\ HandleAppended(a_posts[r][i], a_last_operation[r], a_new_handle[r])

\* A run that submitted an operation whose alsoKnownAs is the tip's one
\* entry and then the new handle, with the tip's rotation keys and services.
C19_Witness ==
    \E r \in Runs :
        /\ Built(r) /\ Posted(r)
        /\ a_last_operation[r].alsoKnownAs # <<>>
        /\ a_posts[r][1].alsoKnownAs =
              a_last_operation[r].alsoKnownAs \o <<AtPrefix \o a_new_handle[r]>>
        /\ a_posts[r][1].rotationKeys = a_last_operation[r].rotationKeys
        /\ a_posts[r][1].prev # a_last_operation[r].prev

(***************************************************************************)
(* C20: every value handle validation accepts, after one leading at:// or   *)
(* @ is stripped, is returned in lower case, contains a dot, is a valid     *)
(* hostname and does not end in a reserved suffix; the suffix check is on   *)
(* the lower-cased form, so that Foo.LOCAL is rejected, and a name without  *)
(* a dot is rejected as a handle.                                            *)
(***************************************************************************)
Accepted20 == v_pc = "return" /\ v_ret.val # <<>>
Rejected20 == v_pc = "return" /\ v_ret.val = <<>>
UpperCase == {"A", "B", "C", "D", "E", "F", "G", "H", "I", "J", "K", "L", "M",
              "N", "O", "P", "Q", "R", "S", "T", "U", "V", "W", "X", "Y", "Z"}
Bare(typed) ==
    IF typed # <<>> /\ typed[1] \in {"at://", "@"} THEN SubSeq(typed, 2, Len(typed))
    ELSE typed
HasDot(s) == \E i \in 1..Len(s) : s[i] = "."
SameButCase(s, t) ==
    /\ Len(s) = Len(t)
    /\ \A i \in 1..Len(s) : s[i] = t[i] \/ (t[i] \in UpperCase /\ s[i] = to_lowercase(<<t[i]>>)[1])
FooLocal == <<"F", "o", "o", ".", "L", "O", "C", "A", "L">>
C20_AcceptedHandle ==
    /\ Accepted20 =>
          /\ \A i \in 1..Len(v_ret.val) : v_ret.val[i] \notin UpperCase
          /\ HasDot(v_ret.val)
          /\ ~HostnameRejected(v_ret.val)
          /\ ~EndsInReserved(v_ret.val)
          /\ SameButCase(v_ret.val, Bare(v_call.handle))
    /\ (v_pc = "return" /\ ~HasDot(Bare(v_call.handle))) => Rejected20
    /\ (v_pc = "return" /\ EndsInReserved(to_lowercase(Bare(v_call.handle)))) => Rejected20
    /\ (v_pc = "return" /\ Bare(v_call.handle) = FooLocal) => Rejected20

\* at://Z.a1 is accepted as z.a1.
C20_Witness ==
    /\ Accepted20
    /\ v_call.handle = <<"at://", "Z", ".", "a", "1">>
    /\ v_ret.val = <<"z", ".", "a", "1">>

(***************************************************************************)
(* C21: when the subject is a handle and resolve_handle succeeds, the       *)
(* subject handle is a member of the returned handle set: the directory     *)
(* document of the returned DID lists the handle that was asked about.      *)
(***************************************************************************)
SubjectIsDid == subject[1] = "did:"
C21_SubjectHandleIsReturned ==
    (RDone /\ rresult.ok /\ ~SubjectIsDid) =>
        /\ subject \in rresult.val.handles
        /\ subject \in ListedHandles(rresult.val.did)

(***************************************************************************)
(* C22: when the subject is a DID and resolve_handle succeeds, the returned *)
(* DID is the subject DID; a subject DID whose listed handles prove another *)
(* DID never gives a success that names the other DID.                      *)
(***************************************************************************)
C22_SubjectDidIsReturned ==
    (RDone /\ rresult.ok /\ SubjectIsDid) => rresult.val.did = subject

(***************************************************************************)
(* C24: resolve_handle issues HTTPS well-known and DNS lookups only for     *)
(* handles that satisfy the handle validity rule (hostname-valid, with a    *)
(* dot, without a reserved suffix); an alsoKnownAs entry of the directory   *)
(* that fails the rule is never a lookup target.                            *)
(***************************************************************************)
ValidHandle(h) == HasDot(h) /\ ~HostnameRejected(h)
C24_LookupsOnlyForValidHandles ==
    \A h \in AskedHandles : ValidHandle(h) /\ is_valid_handle(h) = h

(***************************************************************************)
(* C23: for fixed answers of the directory, HTTPS and DNS, the outcome of   *)
(* resolve_handle (success with its DID, PDS and handle set, or failure and *)
(* its kind) does not depend on which unresolved DID or handle is picked    *)
(* when several are available: every run returns what the run that always   *)
(* picks the shortest available element returns.                            *)
(***************************************************************************)
Shortest(available) == CHOOSE x \in available : \A y \in available : Len(x) <= Len(y)
RECURSIVE ShortestFirst(_)
ShortestFirst(st) ==
    LET dids == st.unresolved_dids \ st.resolved_dids
        handles == st.unresolved_handles \ st.resolved_handles
    IN  IF st.iterations + 1 > 10 THEN DepthError
        ELSE IF dids = {} /\ handles = {}
        THEN PostConditions(st.found_dids, st.found_handles, st.found_pds)
        ELSE LET listed == IF dids = {} THEN [pds |-> {}, handles |-> {}]
                           ELSE [pds |-> ListedPds(Shortest(dids)),
                                 handles |-> ListedHandles(Shortest(dids))]
                 named == IF handles = {} THEN {}
                          ELSE HttpNamed(Shortest(handles)) \cup DnsNamed(Shortest(handles))
             IN  ShortestFirst(
                    [iterations |-> st.iterations + 1,
                     resolved_dids |-> st.resolved_dids
                                          \cup (IF dids = {} THEN {} ELSE {Shortest(dids)}),
                     resolved_handles |-> st.resolved_handles
                                          \cup (IF handles = {} THEN {} ELSE {Shortest(handles)}),
                     unresolved_dids |-> st.unresolved_dids \cup named,
                     unresolved_handles |-> st.unresolved_handles \cup listed.handles,
                     found_dids |-> st.found_dids \cup named,
                     found_handles |-> st.found_handles \cup listed.handles,
                     found_pds |-> st.found_pds \cup listed.pds])
Seeded ==
    [iterations |-> 0, resolved_dids |-> {}, resolved_handles |-> {},
     unresolved_dids |-> IF SubjectIsDid THEN {subject} ELSE {},
     unresolved_handles |-> IF SubjectIsDid THEN {} ELSE {subject},
     found_dids |-> {}, found_handles |-> {}, found_pds |-> {}]
C23_OutcomeIsOrderFree == RDone => rresult = ShortestFirst(Seeded)

(***************************************************************************)
(* C25: in the tandem binary the action that runs is the one whose label    *)
(* was selected from the menu: Install Tandem Key runs the install-key      *)
(* (prepare) action and Append Handle runs the Append Handle action;        *)
(* get_action returns an error for every index that has no action.          *)
(***************************************************************************)
Selected(label) == v_pc = "return" /\ "label" \in DOMAIN v_call /\ v_call.label = label
C25_SelectedActionRuns ==
    /\ Selected("Install Tandem Key") => e_entry = "install_key"
    /\ Selected("Append Handle") => e_entry = "append_handle"
    /\ (v_pc = "return" /\ v_call.selected_operation \notin 0..3) =>
          v_ret = Err("Unsupported operation")

(***************************************************************************)
(* C26: the Install Tandem Key flow (the action and the prepare binary)     *)
(* ends with success only if the PDS answered requestPlcOperationSignature  *)
(* and submitPlcOperation with a 2xx status each; a non-2xx answer to       *)
(* either ends the run with an error; submitPlcOperation is called only     *)
(* after signPlcOperation returned an operation.                            *)
(***************************************************************************)
RequestsOf(kind) == {i \in 1..Len(e_requests) : e_requests[i].kind = kind}
Is2xx(response) == response.kind = "http" /\ response.status \in 200..299
Refused(kind) == \E i \in RequestsOf(kind) : ~Is2xx(e_requests[i].response)
InstallSucceeded ==
    Installing /\ epc = "done" /\ eresult.ok /\ "handle" \in DOMAIN e_typed
C26_SuccessNeeds2xx ==
    /\ InstallSucceeded =>
          \A kind \in {"requestPlcOperationSignature", "submitPlcOperation"} :
              /\ RequestsOf(kind) # {}
              /\ \A i \in RequestsOf(kind) : Is2xx(e_requests[i].response)
    /\ (Installing /\ (Refused("requestPlcOperationSignature")
                          \/ Refused("submitPlcOperation"))) =>
          (epc = "done" /\ ~eresult.ok /\ eresult # Pending)
    /\ \A i \in RequestsOf("submitPlcOperation") :
          \E j \in RequestsOf("signPlcOperation") :
              /\ j < i
              /\ e_requests[j].response.kind = "http"
              /\ e_requests[j].response.body.kind = "operation"
              /\ e_requests[i].body.operation = e_requests[j].response.body.operation

(***************************************************************************)
(* C27: Append Handle works with a secret key of either curve: given a      *)
(* valid secp256k1 JWK, the did:key shown is derived with secp256k1 (prefix *)
(* 0xe7 0x01), the operation is signed with secp256k1, and the run is not   *)
(* rejected because of the key's curve; the curve of the derivation is the  *)
(* curve of the signature.                                                  *)
(***************************************************************************)
Derived(r) == "jwk_to_did_key" \in SeqToSet(a_steps[r])
ValidJwk(r, curve) == Derived(r) /\ a_jwk[r].crv = curve /\ a_jwk[r].d # "absent"
C27_EitherCurveWorks ==
    \A r \in Runs :
        /\ ValidJwk(r, "secp256k1") =>
              /\ a_did_key[r] = Multibase(K256Prefix, PublicPoint("secp256k1", a_jwk[r].d))
              /\ aresult[r] # Err("invalid P-256 key")
              /\ Signed(r) => a_signed[r].sig.b64url.curve = "secp256k1"
        /\ ValidJwk(r, "P-256") =>
              /\ a_did_key[r] = Multibase(P256Prefix, PublicPoint("P-256", a_jwk[r].d))
              /\ Signed(r) => a_signed[r].sig.b64url.curve = "P-256"
        /\ Signed(r) => a_signed[r].sig.b64url.curve = a_did_key[r].point.curve

====
